---- MODULE Spec2Model ----
(***************************************************************************)
(* Base detection and pivot scan of turtle_rpm (sepa.py, pivot_scan.py,    *)
(* scripts/pivot_breakout_scan.py).                                        *)
(*                                                                         *)
(* Units.  Prices are integers in mills (0.001), so that round(x, 2) of    *)
(* the code is a real conversion (to a multiple of 10 mills).  Percentages *)
(* kept in records (depth_pct, distance_pct, pivot_range_pct, scores) are  *)
(* integers in hundredths, the resolution round(x, 2) leaves them with.    *)
(* Unrounded quotients are never formed: the code's comparisons on them    *)
(* are done by cross-multiplication.  Dates are day numbers; the weekly    *)
(* bar of week i (1-based) carries the Friday label 7*i.  Sequence         *)
(* positions are 1-based: position i here is iloc[i-1] in the code.        *)
(***************************************************************************)
EXTENDS Integers, Sequences, FiniteSets, TLC

VARIABLES
    weekly,     \* df_weekly: sequence of weekly bars
    daily,      \* df_daily with SMAs, as find_bases reads it: its length and the weeks whose date passes uptrend_at_date
    pivot,      \* the dict returned by pivot_forming
    bases,      \* the list returned by find_bases
    row,        \* the scan row of the symbol
    args,       \* arguments of a direct call of a pure function
    ret,        \* its return value
    symbols,    \* run_scan's input list
    market,     \* what compute_pivot_result does for each symbol: raises, or the row it returns
    results,    \* run_scan's results list
    cursor,     \* position of run_scan's loop in sym_list
    full_rows,  \* rows written to the full report
    tomorrow_rows, \* rows written to the buyable report
    pc

baseVars == <<weekly, daily, pivot, bases, row>>
callVars == <<args, ret>>
scanVars == <<symbols, market, results, cursor, full_rows, tomorrow_rows>>
vars == <<weekly, daily, pivot, bases, row, args, ret, symbols, market, results, cursor, full_rows, tomorrow_rows, pc>>

\* Python's None for optional numbers and dates (all of which are >= 0 here).
None == -1
NoType == "None"

---------------------------------------------------------------------------
\* Program constants (sepa.py, pivot_scan.py)
MIN_DAILY_BARS == 252
PIVOT_WEEKS == 2
POWER_PLAY_WEEKS == <<2, 6>>
DARVAS_WEEKS == <<4, 6>>
CUP_CHEAT_WEEKS == <<6, 52>>
CUP_HANDLE_WEEKS == <<7, 65>>
DOUBLE_BOTTOM_WEEKS == <<7, 65>>
\* 0.90, as a percentage
POWER_PLAY_MIN_RUNUP == 90
\* 0.05, as a percentage
DOUBLE_BOTTOM_LOW_TOLERANCE == 5
DARVAS_MAX_DEPTH_PCT == 25
TRAILING_HIGH_LOOKBACK_WEEKS == 12
CUP_CHEAT_MIN_WEEKS_CURRENT == 5
\* 3.0 percent, in hundredths
DEFAULT_DISTANCE_PCT_MAX == 300

---------------------------------------------------------------------------
\* Arithmetic helpers

MaxOf(S) == CHOOSE x \in S : \A y \in S : y <= x
MinOf(S) == CHOOSE x \in S : \A y \in S : x <= y
Abs(x) == IF x < 0 THEN -x ELSE x
Idx(n) == [i \in 1..n |-> i]
Range(s) == {s[i] : i \in 1..Len(s)}

\* Python round() of the exact quotient num/den (num >= 0, den > 0) to an
\* integer: to nearest, ties to even.
RoundHalfEven(num, den) ==
    LET q == num \div den
        r == num % den
    IN  IF 2 * r < den THEN q
        ELSE IF 2 * r > den THEN q + 1
        ELSE IF q % 2 = 0 THEN q ELSE q + 1

\* round(price, 2): a price in mills to the nearest cent, still in mills.
Round2Price(p) == RoundHalfEven(p, 10) * 10


\* Label of weekly bar i and position of the weekly bar with a given label.
WeekDate(i) == 7 * i
WeekOf(d) == d \div 7

---------------------------------------------------------------------------
\* Unrounded floats that the code compares or rounds are exact quotients
\* <<num, den>>, den > 0; den = 0 stands for None.
NoQuot == <<0, 0>>
QuotLe(q, k) == q[1] <= k * q[2]
\* round(q, 2), in hundredths.
Round2Quot(q) == RoundHalfEven(q[1] * 100, q[2])

\* The sum of values[k] over the positions k of S.
RECURSIVE SumOver(_, _)
SumOver(values, S) == IF S = {} THEN 0 ELSE LET k == CHOOSE k \in S : TRUE IN values[k] + SumOver(values, S \ {k})

\* Series.mean() over the rows S: the mean of the defined values as a
\* quotient, NoQuot (NaN) when there is none.
MeanOf(rows, S, col) ==
    LET valid == {k \in S : rows[k][col] # None}
    IN  IF valid = {} THEN NoQuot ELSE <<SumOver([k \in 1..Len(rows) |-> rows[k][col]], valid), Cardinality(valid)>>

\* _pivot_highs_lows that flags only a High (Low) strictly beyond every
\* other bar of the window.
_pivot_highs_lows_Strict(df_weekly) ==
    LET n == Len(df_weekly)
        left(i) == IF i - PIVOT_WEEKS < 1 THEN 1 ELSE i - PIVOT_WEEKS
        right(i) == IF i + PIVOT_WEEKS > n THEN n ELSE i + PIVOT_WEEKS
        isHigh(i) == \A k \in (left(i)..right(i)) \ {i} : df_weekly[i].High > df_weekly[k].High
        isLow(i) == \A k \in (left(i)..right(i)) \ {i} : df_weekly[i].Low < df_weekly[k].Low
    IN  [highs |-> SelectSeq(Idx(n), isHigh), lows |-> SelectSeq(Idx(n), isLow)]

\* sepa._pivot_highs_lows: positions whose High (Low) is the maximum
\* (minimum) of the window of PIVOT_WEEKS on each side, ties included.
_pivot_highs_lows(df_weekly) ==
    LET n == Len(df_weekly)
        left(i) == IF i - PIVOT_WEEKS < 1 THEN 1 ELSE i - PIVOT_WEEKS
        right(i) == IF i + PIVOT_WEEKS > n THEN n ELSE i + PIVOT_WEEKS
        isHigh(i) == \A k \in left(i)..right(i) : df_weekly[i].High >= df_weekly[k].High
        isLow(i) == \A k \in left(i)..right(i) : df_weekly[i].Low <= df_weekly[k].Low
    IN  [highs |-> SelectSeq(Idx(n), isHigh), lows |-> SelectSeq(Idx(n), isLow)]

\* _classify_base with the Darvas box test placed before the Power Play
\* test.
_classify_base_DarvasFirst(duration_weeks, depth_pct, prior_high, base_low, latest_close, two_lows, low1, low2, has_handle, prior_8wk_gain, is_current_base) ==
    LET cup_range == prior_high - base_low
        in_lower_third == IF cup_range > 0
                          THEN 3 * (latest_close - base_low) <= cup_range
                          ELSE latest_close <= base_low
        cup_min_weeks == IF is_current_base THEN CUP_CHEAT_MIN_WEEKS_CURRENT ELSE CUP_CHEAT_WEEKS[1]
    IN  IF /\ DARVAS_WEEKS[1] <= duration_weeks /\ duration_weeks <= DARVAS_WEEKS[2]
           /\ QuotLe(depth_pct, DARVAS_MAX_DEPTH_PCT)
        THEN "Darvas box"
        ELSE IF /\ POWER_PLAY_WEEKS[1] <= duration_weeks /\ duration_weeks <= POWER_PLAY_WEEKS[2]
                /\ prior_8wk_gain # NoQuot
                /\ 100 * prior_8wk_gain[1] >= POWER_PLAY_MIN_RUNUP * prior_8wk_gain[2]
        THEN "Power Play"
        ELSE IF /\ cup_min_weeks <= duration_weeks /\ duration_weeks <= CUP_CHEAT_WEEKS[2]
                /\ ~has_handle
        THEN (IF in_lower_third THEN "Low cheat" ELSE "Cup completion cheat")
        ELSE IF /\ CUP_HANDLE_WEEKS[1] <= duration_weeks /\ duration_weeks <= CUP_HANDLE_WEEKS[2]
                /\ has_handle
        THEN "Cup w/ handle"
        ELSE IF /\ DOUBLE_BOTTOM_WEEKS[1] <= duration_weeks /\ duration_weeks <= DOUBLE_BOTTOM_WEEKS[2]
                /\ two_lows
                /\ low1 # None /\ low2 # None /\ prior_high > 0
                /\ 100 * Abs(low1 - low2) <= DOUBLE_BOTTOM_LOW_TOLERANCE * prior_high
        THEN "Double bottom"
        ELSE IF cup_min_weeks <= duration_weeks /\ duration_weeks <= CUP_CHEAT_WEEKS[2]
        THEN "Cup completion cheat"
        ELSE IF CUP_HANDLE_WEEKS[1] <= duration_weeks /\ duration_weeks <= CUP_HANDLE_WEEKS[2]
        THEN "Cup w/ handle"
        ELSE NoType

\* _classify_base with the Double bottom rule ahead of the cup rules.
_classify_base_DoubleBottomFirst(duration_weeks, depth_pct, prior_high, base_low, latest_close, two_lows, low1, low2, has_handle, prior_8wk_gain, is_current_base) ==
    LET cup_range == prior_high - base_low
        in_lower_third == IF cup_range > 0
                          THEN 3 * (latest_close - base_low) <= cup_range
                          ELSE latest_close <= base_low
        cup_min_weeks == IF is_current_base THEN CUP_CHEAT_MIN_WEEKS_CURRENT ELSE CUP_CHEAT_WEEKS[1]
    IN  IF /\ POWER_PLAY_WEEKS[1] <= duration_weeks /\ duration_weeks <= POWER_PLAY_WEEKS[2]
           /\ prior_8wk_gain # NoQuot
           /\ 100 * prior_8wk_gain[1] >= POWER_PLAY_MIN_RUNUP * prior_8wk_gain[2]
        THEN "Power Play"
        ELSE IF /\ DARVAS_WEEKS[1] <= duration_weeks /\ duration_weeks <= DARVAS_WEEKS[2]
                /\ QuotLe(depth_pct, DARVAS_MAX_DEPTH_PCT)
        THEN "Darvas box"
        ELSE IF /\ DOUBLE_BOTTOM_WEEKS[1] <= duration_weeks /\ duration_weeks <= DOUBLE_BOTTOM_WEEKS[2]
                /\ two_lows
                /\ low1 # None /\ low2 # None /\ prior_high > 0
                /\ 100 * Abs(low1 - low2) <= DOUBLE_BOTTOM_LOW_TOLERANCE * prior_high
        THEN "Double bottom"
        ELSE IF /\ cup_min_weeks <= duration_weeks /\ duration_weeks <= CUP_CHEAT_WEEKS[2]
                /\ ~has_handle
        THEN (IF in_lower_third THEN "Low cheat" ELSE "Cup completion cheat")
        ELSE IF /\ CUP_HANDLE_WEEKS[1] <= duration_weeks /\ duration_weeks <= CUP_HANDLE_WEEKS[2]
                /\ has_handle
        THEN "Cup w/ handle"
        ELSE IF cup_min_weeks <= duration_weeks /\ duration_weeks <= CUP_CHEAT_WEEKS[2]
        THEN "Cup completion cheat"
        ELSE IF CUP_HANDLE_WEEKS[1] <= duration_weeks /\ duration_weeks <= CUP_HANDLE_WEEKS[2]
        THEN "Cup w/ handle"
        ELSE NoType

\* _classify_base with the cup-cheat rules ending at 26 weeks instead of
\* CUP_CHEAT_WEEKS[1].
_classify_base_CupTo26(duration_weeks, depth_pct, prior_high, base_low, latest_close, two_lows, low1, low2, has_handle, prior_8wk_gain, is_current_base) ==
    LET cup_range == prior_high - base_low
        \* latest_close <= base_low + cup_range / 3.0
        in_lower_third == IF cup_range > 0
                          THEN 3 * (latest_close - base_low) <= cup_range
                          ELSE latest_close <= base_low
        cup_min_weeks == IF is_current_base THEN CUP_CHEAT_MIN_WEEKS_CURRENT ELSE CUP_CHEAT_WEEKS[1]
    IN  IF /\ POWER_PLAY_WEEKS[1] <= duration_weeks /\ duration_weeks <= POWER_PLAY_WEEKS[2]
           /\ prior_8wk_gain # NoQuot
           /\ 100 * prior_8wk_gain[1] >= POWER_PLAY_MIN_RUNUP * prior_8wk_gain[2]
        THEN "Power Play"
        ELSE IF /\ DARVAS_WEEKS[1] <= duration_weeks /\ duration_weeks <= DARVAS_WEEKS[2]
                /\ QuotLe(depth_pct, DARVAS_MAX_DEPTH_PCT)
        THEN "Darvas box"
        ELSE IF /\ cup_min_weeks <= duration_weeks /\ duration_weeks <= 26
                /\ ~has_handle
        THEN (IF in_lower_third THEN "Low cheat" ELSE "Cup completion cheat")
        ELSE IF /\ CUP_HANDLE_WEEKS[1] <= duration_weeks /\ duration_weeks <= CUP_HANDLE_WEEKS[2]
                /\ has_handle
        THEN "Cup w/ handle"
        ELSE IF /\ DOUBLE_BOTTOM_WEEKS[1] <= duration_weeks /\ duration_weeks <= DOUBLE_BOTTOM_WEEKS[2]
                /\ two_lows
                /\ low1 # None /\ low2 # None /\ prior_high > 0
                /\ 100 * Abs(low1 - low2) <= DOUBLE_BOTTOM_LOW_TOLERANCE * prior_high
        THEN "Double bottom"
        ELSE IF cup_min_weeks <= duration_weeks /\ duration_weeks <= 26
        THEN "Cup completion cheat"
        ELSE IF CUP_HANDLE_WEEKS[1] <= duration_weeks /\ duration_weeks <= CUP_HANDLE_WEEKS[2]
        THEN "Cup w/ handle"
        ELSE NoType

\* sepa._classify_base.  depth_pct and prior_8wk_gain are quotients; the
\* gain is compared as a percentage (0.90 = 90/100).
_classify_base(duration_weeks, depth_pct, prior_high, base_low, latest_close, two_lows, low1, low2, has_handle, prior_8wk_gain, is_current_base) ==
    LET cup_range == prior_high - base_low
        \* latest_close <= base_low + cup_range / 3.0
        in_lower_third == IF cup_range > 0
                          THEN 3 * (latest_close - base_low) <= cup_range
                          ELSE latest_close <= base_low
        cup_min_weeks == IF is_current_base THEN CUP_CHEAT_MIN_WEEKS_CURRENT ELSE CUP_CHEAT_WEEKS[1]
    IN  IF /\ POWER_PLAY_WEEKS[1] <= duration_weeks /\ duration_weeks <= POWER_PLAY_WEEKS[2]
           /\ prior_8wk_gain # NoQuot
           /\ 100 * prior_8wk_gain[1] >= POWER_PLAY_MIN_RUNUP * prior_8wk_gain[2]
        THEN "Power Play"
        ELSE IF /\ DARVAS_WEEKS[1] <= duration_weeks /\ duration_weeks <= DARVAS_WEEKS[2]
                /\ QuotLe(depth_pct, DARVAS_MAX_DEPTH_PCT)
        THEN "Darvas box"
        ELSE IF /\ cup_min_weeks <= duration_weeks /\ duration_weeks <= CUP_CHEAT_WEEKS[2]
                /\ ~has_handle
        THEN (IF in_lower_third THEN "Low cheat" ELSE "Cup completion cheat")
        ELSE IF /\ CUP_HANDLE_WEEKS[1] <= duration_weeks /\ duration_weeks <= CUP_HANDLE_WEEKS[2]
                /\ has_handle
        THEN "Cup w/ handle"
        ELSE IF /\ DOUBLE_BOTTOM_WEEKS[1] <= duration_weeks /\ duration_weeks <= DOUBLE_BOTTOM_WEEKS[2]
                /\ two_lows
                /\ low1 # None /\ low2 # None /\ prior_high > 0
                /\ 100 * Abs(low1 - low2) <= DOUBLE_BOTTOM_LOW_TOLERANCE * prior_high
        THEN "Double bottom"
        ELSE IF cup_min_weeks <= duration_weeks /\ duration_weeks <= CUP_CHEAT_WEEKS[2]
        THEN "Cup completion cheat"
        ELSE IF CUP_HANDLE_WEEKS[1] <= duration_weeks /\ duration_weeks <= CUP_HANDLE_WEEKS[2]
        THEN "Cup w/ handle"
        ELSE NoType

\* Maximum High over positions a..b of the weekly series.
MaxHigh(df_weekly, a, b) == MaxOf({df_weekly[k].High : k \in a..b})

\* Variant: the handle high is used for every base typed Cup w/ handle.
_resistance_for_base_AnyHandle(base_type, prior_high, df_weekly, hi_idx, end_idx, lows_in_segment, has_handle) ==
    IF base_type = "Cup w/ handle" /\ Len(lows_in_segment) >= 2
    THEN MaxHigh(df_weekly, lows_in_segment[2], end_idx)
    ELSE IF base_type = "Double bottom" /\ Len(lows_in_segment) >= 2
    THEN MaxHigh(df_weekly, lows_in_segment[1], lows_in_segment[2])
    ELSE IF base_type = "Darvas box"
    THEN MaxHigh(df_weekly, hi_idx, end_idx)
    ELSE prior_high

\* sepa._resistance_for_base (unrounded).
_resistance_for_base(base_type, prior_high, df_weekly, hi_idx, end_idx, lows_in_segment, has_handle) ==
    IF base_type = "Cup w/ handle" /\ has_handle /\ Len(lows_in_segment) >= 2
    THEN MaxHigh(df_weekly, lows_in_segment[2], end_idx)
    ELSE IF base_type = "Double bottom" /\ Len(lows_in_segment) >= 2
    THEN MaxHigh(df_weekly, lows_in_segment[1], lows_in_segment[2])
    ELSE IF base_type = "Darvas box"
    THEN MaxHigh(df_weekly, hi_idx, end_idx)
    ELSE prior_high

\* Variant: the scan runs on to the end of the series.
_buy_point_date_LookAhead(df_weekly, start_idx, end_idx, resistance) ==
    LET hits == {i \in start_idx..Len(df_weekly) : df_weekly[i].Close >= resistance}
    IN  IF hits = {} THEN None ELSE WeekDate(MinOf(hits))

\* sepa._buy_point_date: label of the first week in start_idx..end_idx whose
\* Close >= resistance, or None.
_buy_point_date(df_weekly, start_idx, end_idx, resistance) ==
    LET hits == {i \in start_idx..end_idx : i <= Len(df_weekly) /\ df_weekly[i].Close >= resistance}
    IN  IF hits = {} THEN None ELSE WeekDate(MinOf(hits))

---------------------------------------------------------------------------
\* find_bases: candidate generation (sepa.py 531-574)

\* Pivot-high anchored candidates: from each pivot high to the week before
\* the next pivot high, or to the last week; empty intervals are skipped.
PivotHighCandidates(df_weekly, pivot_highs) ==
    LET later(hi) == {i \in Range(pivot_highs) : i > hi}
        end_idx(hi) == IF later(hi) # {} THEN MinOf(later(hi)) - 1 ELSE Len(df_weekly)
        all == [k \in 1..Len(pivot_highs) |->
                   [hi_idx |-> pivot_highs[k], end_idx |-> end_idx(pivot_highs[k]), source |-> "pivot_high"]]
    IN  SelectSeq(all, LAMBDA c : c.end_idx > c.hi_idx)

\* The trailing-high step without the test that the anchor is not already a
\* pivot high.
TrailingHighCandidates_KeepsPivotHighs(df_weekly, pivot_highs) ==
    LET n == Len(df_weekly)
        last0 == n - 1
        lookback == IF TRAILING_HIGH_LOOKBACK_WEEKS < last0 THEN TRAILING_HIGH_LOOKBACK_WEEKS ELSE last0
        start_idx == IF n - lookback < 1 THEN 1 ELSE n - lookback
        max_high_val == MaxHigh(df_weekly, start_idx, n)
        trailing_hi_idx == MaxOf({j \in start_idx..n : df_weekly[j].High >= max_high_val})
    IN  IF lookback >= 4 /\ trailing_hi_idx <= n - 4
        THEN << [hi_idx |-> trailing_hi_idx, end_idx |-> n, source |-> "trailing_high"] >>
        ELSE << >>

\* Trailing-high candidate: the last week holding the highest High of the
\* trailing window, when it is no pivot high and lies at least 4 weeks
\* before the last week.
TrailingHighCandidates(df_weekly, pivot_highs) ==
    LET n == Len(df_weekly)
        last0 == n - 1
        lookback == IF TRAILING_HIGH_LOOKBACK_WEEKS < last0 THEN TRAILING_HIGH_LOOKBACK_WEEKS ELSE last0
        start_idx == IF n - lookback < 1 THEN 1 ELSE n - lookback
        max_high_val == MaxHigh(df_weekly, start_idx, n)
        trailing_hi_idx == MaxOf({j \in start_idx..n : df_weekly[j].High >= max_high_val})
    IN  IF lookback >= 4 /\ trailing_hi_idx \notin Range(pivot_highs) /\ trailing_hi_idx <= n - 4
        THEN << [hi_idx |-> trailing_hi_idx, end_idx |-> n, source |-> "trailing_high"] >>
        ELSE << >>

\* Pivot-anchored candidate: when a pivot is forming, the first week holding
\* the highest High among the last 10 weekly bars dated before the pivot
\* window, provided at least 5 weekly bars are dated before it.
PivotAnchoredCandidates(df_weekly, pv) ==
    LET n == Len(df_weekly)
        eligible == {i \in 1..n : WeekDate(i) < pv.pivot_start_date}
        e == Cardinality(eligible)
        first10 == IF e - 9 < 1 THEN 1 ELSE e - 9
        top == MaxHigh(df_weekly, first10, e)
        anchor_hi_idx == MinOf({i \in first10..e : df_weekly[i].High = top})
    IN  IF pv.forming /\ pv.pivot_start_date # None /\ e >= 5
        THEN << [hi_idx |-> anchor_hi_idx, end_idx |-> n, source |-> "pivot_anchored"] >>
        ELSE << >>

candidate_starts(df_weekly, pivot_highs, pv) ==
    PivotHighCandidates(df_weekly, pivot_highs)
      \o TrailingHighCandidates(df_weekly, pivot_highs)
      \o PivotAnchoredCandidates(df_weekly, pv)

---------------------------------------------------------------------------
\* find_bases: evaluation of one candidate (sepa.py 576-666)

\* The gate with the retry applied to every candidate.
UptrendOk_RetryAlways(df_daily, hi_idx, is_current_base) ==
    \/ hi_idx \in df_daily.uptrend
    \/ hi_idx >= 2 /\ (hi_idx - 1) \in df_daily.uptrend

\* The gate of lines 597-600: uptrend_at_date at the start week, retried one
\* week earlier for a candidate ending at the last week.
UptrendOk(df_daily, hi_idx, is_current_base) ==
    \/ hi_idx \in df_daily.uptrend
    \/ is_current_base /\ hi_idx >= 2 /\ (hi_idx - 1) \in df_daily.uptrend

\* has_handle of lines 590-596.
HasHandle(df_weekly, lows_in_segment, prior_high, base_low) ==
    /\ Len(lows_in_segment) >= 2
    /\ LET first_low == base_low
           second_low == df_weekly[lows_in_segment[2]].Low
       IN  \* second_low > base_low + (prior_high - base_low) / 2
           /\ 2 * (second_low - base_low) > prior_high - base_low
           /\ second_low > first_low

\* Variant: the distance is computed also for a triggered base.
DistancePct_Always(buy_point_date, resistance, latest_close) ==
    IF resistance <= 0
    THEN 0
    ELSE Round2Quot(<<Abs(resistance - latest_close) * 100, resistance>>)

\* distance_pct of lines 646-649, rounded as line 664 stores it.
DistancePct(buy_point_date, resistance, latest_close) ==
    IF buy_point_date # None \/ resistance <= 0
    THEN 0
    ELSE Round2Quot(<<(resistance - latest_close) * 100, resistance>>)

\* The record appended to results for one candidate, or NoBase when the
\* candidate is skipped (trend gate, no classification).
NoBase == [base_type |-> NoType]

\* _vcp_like that lets an ATR equal at both ends of the interval pass.
_vcp_like_AtrNotRising(df_weekly, hi_idx, end_idx, lows_in_segment, prior_high, df_daily_atr) ==
    LET depth(k) == (prior_high - df_weekly[lows_in_segment[k]].Low) * 100
        decreasing == \A k \in 2..Len(lows_in_segment) : ~(depth(k) >= depth(k - 1))
        segment == hi_idx..end_idx
        up_weeks == {k \in segment : df_weekly[k].Close >= df_weekly[k].Open}
        down_vol == MeanOf(df_weekly, segment \ up_weeks, "Volume")
        up_vol == MeanOf(df_weekly, up_weeks, "Volume")
        volume_ok == IF "Volume" \notin DOMAIN df_weekly[hi_idx] THEN TRUE
                     ELSE IF down_vol = NoQuot \/ up_vol = NoQuot \/ up_vol[1] <= 0 THEN TRUE
                     ELSE down_vol[1] * up_vol[2] < up_vol[1] * down_vol[2]
        in_range == {k \in segment : k <= Len(df_daily_atr.atr)}
        atr_start == df_daily_atr.atr[MinOf(in_range)]
        atr_end == df_daily_atr.atr[MaxOf(in_range)]
    IN  IF prior_high <= 0 THEN FALSE
        ELSE IF ~decreasing \/ Len(lows_in_segment) < 2 THEN FALSE
        ELSE IF ~volume_ok THEN FALSE
        ELSE IF in_range # {} /\ (\E k \in in_range : df_daily_atr.atr[k] # None)
                /\ atr_start # None /\ atr_end # None /\ atr_start > 0 /\ atr_end > atr_start THEN FALSE
        ELSE TRUE

\* sepa._vcp_like.  The depths share the denominator prior_high, positive
\* here, so their numerators are compared.  A weekly bar without a Volume
\* field stands for a weekly frame without the Volume column.  df_daily_atr
\* is the copy of the daily frame with the ATR column; its atr field gives,
\* week by week, the ATR of the daily bar that closes the week (None for
\* NaN), over the weeks the daily frame covers: the first daily bar at or
\* after start_ts is the one closing the start week, the last one at or
\* before end_ts the one closing the end week.
_vcp_like(df_weekly, hi_idx, end_idx, lows_in_segment, prior_high, df_daily_atr) ==
    LET depth(k) == (prior_high - df_weekly[lows_in_segment[k]].Low) * 100
        decreasing == \A k \in 2..Len(lows_in_segment) : ~(depth(k) >= depth(k - 1))
        segment == hi_idx..end_idx
        up_weeks == {k \in segment : df_weekly[k].Close >= df_weekly[k].Open}
        down_vol == MeanOf(df_weekly, segment \ up_weeks, "Volume")
        up_vol == MeanOf(df_weekly, up_weeks, "Volume")
        volume_ok == IF "Volume" \notin DOMAIN df_weekly[hi_idx] THEN TRUE
                     ELSE IF down_vol = NoQuot \/ up_vol = NoQuot \/ up_vol[1] <= 0 THEN TRUE
                     ELSE down_vol[1] * up_vol[2] < up_vol[1] * down_vol[2]
        in_range == {k \in segment : k <= Len(df_daily_atr.atr)}
        atr_start == df_daily_atr.atr[MinOf(in_range)]
        atr_end == df_daily_atr.atr[MaxOf(in_range)]
    IN  IF prior_high <= 0 THEN FALSE
        ELSE IF ~decreasing \/ Len(lows_in_segment) < 2 THEN FALSE
        ELSE IF ~volume_ok THEN FALSE
        ELSE IF in_range # {} /\ (\E k \in in_range : df_daily_atr.atr[k] # None)
                /\ atr_start # None /\ atr_end # None /\ atr_start > 0 /\ atr_end >= atr_start THEN FALSE
        ELSE TRUE

\* EvaluateCandidate counting the weeks after the start week only.
EvaluateCandidate_DurationExclusive(df_weekly, df_daily, pivot_lows, c) ==
    LET hi_idx == c.hi_idx
        end_idx == c.end_idx
        prior_high == df_weekly[hi_idx].High
        base_low == MinOf({df_weekly[k].Low : k \in hi_idx..end_idx})
        depth_pct == IF prior_high > 0 THEN <<(prior_high - base_low) * 100, prior_high>> ELSE <<0, 1>>
        duration_weeks == end_idx - hi_idx
        latest_close == df_weekly[end_idx].Close
        is_current_base == (end_idx = Len(df_weekly))
        lows_in_segment == SelectSeq(pivot_lows, LAMBDA i : hi_idx < i /\ i <= end_idx)
        two_lows == Len(lows_in_segment) >= 2
        has_handle == HasHandle(df_weekly, lows_in_segment, prior_high, base_low)
        low1 == IF Len(lows_in_segment) >= 1 THEN df_weekly[lows_in_segment[1]].Low ELSE None
        low2 == IF Len(lows_in_segment) >= 2 THEN df_weekly[lows_in_segment[2]].Low ELSE None
        close_8_ago == IF hi_idx >= 9 THEN df_weekly[hi_idx - 8].Close ELSE 0
        prior_8wk_gain == IF hi_idx >= 9 /\ close_8_ago > 0
                          THEN <<prior_high - close_8_ago, close_8_ago>>
                          ELSE NoQuot
        base_type == _classify_base(duration_weeks, depth_pct, prior_high, base_low, latest_close, two_lows, low1, low2, has_handle, prior_8wk_gain, is_current_base)
        resistance == _resistance_for_base(base_type, prior_high, df_weekly, hi_idx, end_idx, lows_in_segment, has_handle)
        buy_point_date == _buy_point_date(df_weekly, hi_idx, end_idx, resistance)
    IN  IF ~UptrendOk(df_daily, hi_idx, is_current_base) \/ base_type = NoType
        THEN NoBase
        ELSE [base_type |-> base_type,
              start_date |-> WeekDate(hi_idx),
              depth_pct |-> Round2Quot(depth_pct),
              duration_weeks |-> duration_weeks,
              end_date |-> WeekDate(end_idx),
              prior_high |-> prior_high,
              base_low |-> base_low,
              resistance |-> Round2Price(resistance),
              buy_point_date |-> buy_point_date,
              distance_pct |-> DistancePct(buy_point_date, resistance, latest_close),
              vcp_like |-> _vcp_like(df_weekly, hi_idx, end_idx, lows_in_segment, prior_high, df_daily)]

EvaluateCandidate(df_weekly, df_daily, pivot_lows, c) ==
    LET hi_idx == c.hi_idx
        end_idx == c.end_idx
        prior_high == df_weekly[hi_idx].High
        base_low == MinOf({df_weekly[k].Low : k \in hi_idx..end_idx})
        depth_pct == IF prior_high > 0 THEN <<(prior_high - base_low) * 100, prior_high>> ELSE <<0, 1>>
        duration_weeks == end_idx - hi_idx + 1
        latest_close == df_weekly[end_idx].Close
        is_current_base == (end_idx = Len(df_weekly))
        lows_in_segment == SelectSeq(pivot_lows, LAMBDA i : hi_idx < i /\ i <= end_idx)
        two_lows == Len(lows_in_segment) >= 2
        has_handle == HasHandle(df_weekly, lows_in_segment, prior_high, base_low)
        low1 == IF Len(lows_in_segment) >= 1 THEN df_weekly[lows_in_segment[1]].Low ELSE None
        low2 == IF Len(lows_in_segment) >= 2 THEN df_weekly[lows_in_segment[2]].Low ELSE None
        close_8_ago == IF hi_idx >= 9 THEN df_weekly[hi_idx - 8].Close ELSE 0
        prior_8wk_gain == IF hi_idx >= 9 /\ close_8_ago > 0
                          THEN <<prior_high - close_8_ago, close_8_ago>>
                          ELSE NoQuot
        base_type == _classify_base(duration_weeks, depth_pct, prior_high, base_low, latest_close, two_lows, low1, low2, has_handle, prior_8wk_gain, is_current_base)
        resistance == _resistance_for_base(base_type, prior_high, df_weekly, hi_idx, end_idx, lows_in_segment, has_handle)
        buy_point_date == _buy_point_date(df_weekly, hi_idx, end_idx, resistance)
    IN  IF ~UptrendOk(df_daily, hi_idx, is_current_base) \/ base_type = NoType
        THEN NoBase
        ELSE [base_type |-> base_type,
              start_date |-> WeekDate(hi_idx),
              depth_pct |-> Round2Quot(depth_pct),
              duration_weeks |-> duration_weeks,
              end_date |-> WeekDate(end_idx),
              prior_high |-> prior_high,
              base_low |-> base_low,
              resistance |-> Round2Price(resistance),
              buy_point_date |-> buy_point_date,
              distance_pct |-> DistancePct(buy_point_date, resistance, latest_close),
              vcp_like |-> _vcp_like(df_weekly, hi_idx, end_idx, lows_in_segment, prior_high, df_daily)]

---------------------------------------------------------------------------
\* find_bases: deduplication by start_date (sepa.py 668-681).  by_start is a
\* dict: a new key is appended, an existing key keeps its place.

\* Variant: the first record of a start_date is kept, whatever follows.
RECURSIVE DedupFrom_KeepFirst(_, _, _, _)
DedupFrom_KeepFirst(rs, k, last_week, by_start) ==
    IF k > Len(rs) THEN by_start
    ELSE LET b == [is_current |-> (rs[k].end_date = last_week)] @@ rs[k]
         IN  IF \E j \in 1..Len(by_start) : by_start[j].start_date = b.start_date
             THEN DedupFrom_KeepFirst(rs, k + 1, last_week, by_start)
             ELSE DedupFrom_KeepFirst(rs, k + 1, last_week, Append(by_start, b))

RECURSIVE DedupFrom(_, _, _, _)
DedupFrom(rs, k, last_week, by_start) ==
    IF k > Len(rs) THEN by_start
    ELSE LET b == [is_current |-> (rs[k].end_date = last_week)] @@ rs[k]
             at == {j \in 1..Len(by_start) : by_start[j].start_date = b.start_date}
         IN  IF at = {}
             THEN DedupFrom(rs, k + 1, last_week, Append(by_start, b))
             ELSE IF b.is_current
             THEN DedupFrom(rs, k + 1, last_week, [by_start EXCEPT ![MinOf(at)] = b])
             ELSE DedupFrom(rs, k + 1, last_week, by_start)

Deduplicate(rs, last_week) == DedupFrom(rs, 1, last_week, << >>)

\* The results list before deduplication: one record per surviving candidate.
BaseRecords(df_weekly, df_daily, pv) ==
    LET pl == _pivot_highs_lows(df_weekly)
        cands == candidate_starts(df_weekly, pl.highs, pv)
        recs == [k \in 1..Len(cands) |-> EvaluateCandidate(df_weekly, df_daily, pl.lows, cands[k])]
    IN  SelectSeq(recs, LAMBDA b : b.base_type # NoType)

\* find_bases without the test of the number of daily bars.
find_bases_NoDailyGuard(df_weekly, df_daily, pv) ==
    IF Len(df_weekly) < 4
    THEN << >>
    ELSE Deduplicate(BaseRecords(df_weekly, df_daily, pv), WeekDate(Len(df_weekly)))

\* sepa.find_bases
find_bases(df_weekly, df_daily, pv) ==
    IF Len(df_weekly) < 4 \/ df_daily.len < MIN_DAILY_BARS
    THEN << >>
    ELSE Deduplicate(BaseRecords(df_weekly, df_daily, pv), WeekDate(Len(df_weekly)))

\* find_bases that writes the ATR column to the caller's daily frame.
DailyAfterFindBases_NoCopy(df_weekly, df_daily) ==
    IF Len(df_weekly) < 4 \/ df_daily.len < MIN_DAILY_BARS
    THEN df_daily
    ELSE [df_daily EXCEPT !.columns = @ \cup {"ATR"}]

\* The caller's daily frame after find_bases: after the tests of lines
\* 507-510 the ATR column is written to df_daily_atr, a copy (512-520), and
\* no later statement assigns to df_daily or df_weekly.
DailyAfterFindBases(df_weekly, df_daily) ==
    IF Len(df_weekly) < 4 \/ df_daily.len < MIN_DAILY_BARS
    THEN df_daily
    ELSE LET df_daily_atr == [df_daily EXCEPT !.columns = @ \cup {"ATR"}]
         IN  df_daily

---------------------------------------------------------------------------
\* Pivot linkage, score and gate (sepa.pivot_in_base, pivot_scan.py)

\* pivot_in_base that returns the first overlapping base.
pivot_in_base_FirstOverlap(pv, bs) ==
    LET overlaps(b) == pv.pivot_start_date <= b.end_date /\ pv.pivot_end_date >= b.start_date
        containing == SelectSeq(bs, overlaps)
    IN  IF ~pv.forming \/ Len(bs) = 0 \/ pv.pivot_start_date = None \/ pv.pivot_end_date = None
        THEN NoBase
        ELSE IF Len(containing) = 0 THEN NoBase
        ELSE containing[1]

\* sepa.pivot_in_base: the first base containing pivot_end_date among those
\* overlapping the pivot window, else the first overlapping one, else NoBase.
pivot_in_base(pv, bs) ==
    LET overlaps(b) == pv.pivot_start_date <= b.end_date /\ pv.pivot_end_date >= b.start_date
        containing == SelectSeq(bs, overlaps)
        holds_end == SelectSeq(containing, LAMBDA b : b.start_date <= pv.pivot_end_date /\ pv.pivot_end_date <= b.end_date)
    IN  IF ~pv.forming \/ Len(bs) = 0 \/ pv.pivot_start_date = None \/ pv.pivot_end_date = None
        THEN NoBase
        ELSE IF Len(containing) = 0 THEN NoBase
        ELSE IF Len(holds_end) > 0 THEN holds_end[1]
        ELSE containing[1]

\* pivot_quality_score without the floors at 0.
pivot_quality_score_NoFloor(r) ==
    IF ~r.pivot_forming THEN 0
    ELSE (IF r.pivot_range_pct # None THEN 4000 - 5 * r.pivot_range_pct ELSE 0)
       + (IF r.tight_closes THEN 1500 ELSE 0)
       + (IF r.in_base THEN 2000 ELSE 0)
       + (IF r.volume_at_pivot = "below" THEN 1000 ELSE 0)
       + (IF r.distance_pct # None /\ r.buy_point_date = None
          THEN (IF r.distance_pct <= 0 THEN 1500 ELSE 1500 - 3 * r.distance_pct)
          ELSE 0)

\* pivot_scan.pivot_quality_score, in hundredths of a point.  Its inputs are
\* in hundredths, so the final round(score, 2) changes nothing.
pivot_quality_score(r) ==
    IF ~r.pivot_forming THEN 0
    ELSE (IF r.pivot_range_pct # None
          THEN (IF 4000 - 5 * r.pivot_range_pct > 0 THEN 4000 - 5 * r.pivot_range_pct ELSE 0)
          ELSE 0)
       + (IF r.tight_closes THEN 1500 ELSE 0)
       + (IF r.in_base THEN 2000 ELSE 0)
       + (IF r.volume_at_pivot = "below" THEN 1000 ELSE 0)
       + (IF r.distance_pct # None /\ r.buy_point_date = None
          THEN (IF r.distance_pct <= 0 THEN 1500
                ELSE IF 1500 - 3 * r.distance_pct > 0 THEN 1500 - 3 * r.distance_pct ELSE 0)
          ELSE 0)

\* is_buyable without the test of buy_point_date.
is_buyable_IgnoreBuyPoint(r, distance_pct_max, min_trend_score, require_rs_above_1) ==
    IF ~r.pivot_forming THEN FALSE
    ELSE IF ~r.in_base \/ r.resistance = None THEN FALSE
    ELSE IF r.distance_pct = None \/ r.distance_pct > distance_pct_max THEN FALSE
    ELSE IF min_trend_score # None /\ (IF r.trend_template_score = None THEN 0 ELSE r.trend_template_score) < min_trend_score THEN FALSE
    ELSE IF require_rs_above_1 /\ (r.rs_ratio = None \/ r.rs_ratio < 100) THEN FALSE
    ELSE TRUE

\* pivot_scan.is_buyable; min_trend_score = None when not given.
is_buyable(r, distance_pct_max, min_trend_score, require_rs_above_1) ==
    IF ~r.pivot_forming THEN FALSE
    ELSE IF ~r.in_base \/ r.resistance = None THEN FALSE
    ELSE IF r.buy_point_date # None THEN FALSE
    ELSE IF r.distance_pct = None \/ r.distance_pct > distance_pct_max THEN FALSE
    ELSE IF min_trend_score # None /\ (IF r.trend_template_score = None THEN 0 ELSE r.trend_template_score) < min_trend_score THEN FALSE
    ELSE IF require_rs_above_1 /\ (r.rs_ratio = None \/ r.rs_ratio < 100) THEN FALSE
    ELSE TRUE

\* The row compute_pivot_result starts from (pivot_scan.py 47-63).
DefaultRow(symbol, name) ==
    [symbol |-> symbol, name |-> name, pivot_forming |-> FALSE, pivot_days |-> None,
     pivot_range_pct |-> None, tight_closes |-> FALSE, pivot_high |-> None,
     in_base |-> FALSE, base_type |-> NoType, resistance |-> None, distance_pct |-> None,
     buy_point_date |-> None, volume_at_pivot |-> NoType, trend_template_score |-> None,
     rs_ratio |-> None]

\* pivot_scan.compute_pivot_result with include_leadership = False.  The
\* daily frame is read through its length, the pivot found in it and the
\* volume label of that pivot.
compute_pivot_result(symbol, name, df_weekly, df_daily, pv) ==
    LET start == DefaultRow(symbol, name)
        bs == find_bases(df_weekly, df_daily, pv)
        base_containing == IF pv.forming THEN pivot_in_base(pv, bs) ELSE NoBase
        vol_label == IF pv.forming THEN df_daily.volume_at_pivot ELSE NoType
        with_pivot == [start EXCEPT !.pivot_forming = pv.forming,
                                    !.pivot_days = pv.days,
                                    !.pivot_range_pct = pv.range_pct,
                                    !.tight_closes = pv.tight_closes,
                                    !.pivot_high = pv.pivot_high,
                                    !.volume_at_pivot = vol_label]
    IN  IF df_daily.len < MIN_DAILY_BARS THEN start
        ELSE IF base_containing = NoBase THEN with_pivot
        ELSE [with_pivot EXCEPT !.in_base = TRUE,
                                !.base_type = base_containing.base_type,
                                !.resistance = base_containing.resistance,
                                !.distance_pct = base_containing.distance_pct,
                                !.buy_point_date = base_containing.buy_point_date]

\* The body of run_scan's loop for one symbol whose computation returns
\* (pivot_scan.py 192-205): the row with quality_score and buyable added.
ScanRow(r, distance_pct_max, min_trend_score, require_rs_above_1) ==
    [quality_score |-> pivot_quality_score(r),
     buyable |-> is_buyable(r, distance_pct_max, min_trend_score, require_rs_above_1)] @@ r

\* The row run_scan appends when the computation of a symbol raises
\* (pivot_scan.py 206-226).
ExceptRow(symbol, name) ==
    [quality_score |-> 0, buyable |-> FALSE] @@ DefaultRow(symbol, name)

\* str.strip() on the strings that occur as symbols and names.
Strip(s) ==
    CASE s = " A" -> "A"
      [] s = " " -> ""
      [] OTHER -> s

\* run_scan's sym_list (pivot_scan.py 176-187): the stripped non-blank
\* symbols, in input order.
RECURSIVE sym_list(_)
sym_list(items) ==
    IF items = << >> THEN << >>
    ELSE LET sym == Strip(Head(items).symbol)
         IN  IF sym # "" THEN <<sym>> \o sym_list(Tail(items)) ELSE sym_list(Tail(items))

\* name_by_symbol.get(symbol) or "": the stripped name of the last dict
\* item with that symbol, "" without one.
RECURSIVE name_by_symbol(_, _)
name_by_symbol(items, symbol) ==
    IF items = << >> THEN ""
    ELSE LET last == items[Len(items)]
         IN  IF last.is_dict /\ Strip(last.symbol) = symbol THEN Strip(last.name)
             ELSE name_by_symbol(SubSeq(items, 1, Len(items) - 1), symbol)

\* One iteration of run_scan's loop that loses the row of a failed symbol.
run_scan_step_DropFailed(res, symbol, name, outcome, gate) ==
    IF outcome.raises THEN res
    ELSE Append(res, ScanRow(compute_pivot_result(symbol, name, outcome.weekly, outcome.daily, outcome.pivot), gate.distance_pct_max, gate.min_trend_score, gate.require_rs_above_1))

\* One iteration of run_scan's loop (pivot_scan.py 190-226): results after
\* the symbol, whose computation raises or returns.
run_scan_step(res, symbol, name, outcome, gate) ==
    IF outcome.raises THEN Append(res, ExceptRow(symbol, name))
    ELSE Append(res, ScanRow(compute_pivot_result(symbol, name, outcome.weekly, outcome.daily, outcome.pivot), gate.distance_pct_max, gate.min_trend_score, gate.require_rs_above_1))

\* r.get("quality_score") or 0
ScoreKey(r) == IF r.quality_score = None THEN 0 ELSE r.quality_score

\* Sorting by increasing key.
RECURSIVE sort_by_quality_Ascending(_)
sort_by_quality_Ascending(rows) ==
    IF rows = << >> THEN << >>
    ELSE LET best == CHOOSE i \in 1..Len(rows) :
                        /\ \A j \in 1..Len(rows) : ScoreKey(rows[j]) >= ScoreKey(rows[i])
                        /\ \A j \in 1..(i - 1) : ScoreKey(rows[j]) > ScoreKey(rows[i])
             rest == [k \in 1..(Len(rows) - 1) |-> IF k < best THEN rows[k] ELSE rows[k + 1]]
         IN  <<rows[best]>> \o sort_by_quality_Ascending(rest)

\* results.sort(key=lambda r: r.get("quality_score") or 0, reverse=True)
\* (scripts/pivot_breakout_scan.py 127): stable, rows of equal key keep
\* their order.
RECURSIVE sort_by_quality(_)
sort_by_quality(rows) ==
    IF rows = << >> THEN << >>
    ELSE LET best == CHOOSE i \in 1..Len(rows) :
                        /\ \A j \in 1..Len(rows) : ScoreKey(rows[j]) <= ScoreKey(rows[i])
                        /\ \A j \in 1..(i - 1) : ScoreKey(rows[j]) < ScoreKey(rows[i])
             rest == [k \in 1..(Len(rows) - 1) |-> IF k < best THEN rows[k] ELSE rows[k + 1]]
         IN  <<rows[best]>> \o sort_by_quality(rest)

---------------------------------------------------------------------------
\* Inputs of the base-detection specification

\* Longest weekly series enumerated bar by bar.
MaxWeeks == 6

Bar(o, h, l, c, v) == [Open |-> o, High |-> h, Low |-> l, Close |-> c, Volume |-> v]

\* Weekly bars the series are built from (prices in mills, none a whole
\* cent): a breakout bar, a top bar closing just under its High, a bar with
\* a deep Low, and a tight bar under them.
BarB == Bar(10004, 10304, 9904, 10204, 5)
BarT == Bar(9804, 10004, 9704, 10002, 3)
BarS == Bar(9894, 9904, 7004, 9854, 4)
BarD == Bar(9704, 9804, 9604, 9754, 2)
Shapes == {BarT, BarS, BarD, BarB}

ShortWeekly == UNION {[1..n -> Shapes] : n \in 3..MaxWeeks}

\* Series with eight cheap weeks before a short tail, so that the start of a
\* base in the tail has a close 8 weeks earlier (prior_8wk_gain).
MaxTail == 4
BarP == Bar(5000, 5104, 4904, 5004, 1)
RunupWeekly == UNION {{[i \in 1..8 |-> BarP] \o t : t \in [1..k -> Shapes]} : k \in 3..MaxTail}

\* Long declines: Highs fall by 100 a week from 20004, so that week 1 is the
\* only pivot high; the Lows of weeks 10 and 20 are set to low1 and low2,
\* which makes them the first two pivot lows.
Decline(n, low1, low2) ==
    [i \in 1..n |->
        LET h == 20004 - 100 * (i - 1)
        IN  Bar(h - 50, h, (IF i = 10 THEN low1 ELSE IF i = 20 THEN low2 ELSE h - 300), h - 100, 2)]
LongLens == {CUP_CHEAT_WEEKS[2], CUP_CHEAT_WEEKS[2] + 1, CUP_HANDLE_WEEKS[2], CUP_HANDLE_WEEKS[2] + 1}
LongWeekly == {Decline(n, lows[1], lows[2]) : n \in LongLens, lows \in {<<12004, 12004>>, <<14004, 12004>>, <<12004, 17004>>}}

\* A base that ends the week before a breakout: eight quiet weeks, a top, a
\* pullback whose last-but-one week pokes above the top without closing
\* above it, and a last week closing above both.
BarX == Bar(9904, 10104, 9704, 9904, 3)
BreakoutWeekly == {[i \in 1..8 |-> BarD] \o <<BarT, BarD, BarD, BarD, BarX, BarT, BarB>>}

\* Series of a symbol trading under half a cent: a week at 0.004 and weeks
\* at 0.003.
PennyWeekly == UNION {[1..n -> {Bar(4, 4, 3, 4, 6), Bar(3, 3, 3, 3, 6)}] : n \in 5..MaxWeeks}

\* Ten weeks under a prior high of 110.0 (week 1), Highs falling by 0.5 a
\* week, with the only pivot lows at 100.0 (week 4) and 103.0 (week 8); the
\* last week closes above or inside the lower third of the range.
TwoLowsWeekly ==
    {[k \in 1..10 |->
        Bar(IF k = 10 THEN last[2] ELSE 105000, 110000 - 500 * (k - 1),
            (IF k = 4 THEN 100000 ELSE IF k = 8 THEN 103000 ELSE IF k = 10 THEN last[1] ELSE 104000),
            IF k = 10 THEN last[2] ELSE 105000, 2)] : last \in {<<104000, 105000>>, <<103100, 103200>>}}

\* Eleven weeks under the High of week 1, Highs falling by 0.3 a week, with
\* Lows of 105.0 except in weeks 3, 6 and 9; the weeks of `downs` close
\* below their open; a down week trades vol[1] shares, an up week vol[2]
\* (None for NaN); the series of the second set have no Volume column.
VcpWeekly ==
    LET Lows == {<<100000, 102000, 104000>>, <<100000, 102000, 102000>>, <<102000, 100000, 104000>>, <<100000, 102000, 105000>>}
        Downs == {{2, 5}, {}, 1..11}
        VcpBar(k, lows, downs, vol) ==
            Bar(IF k \in downs THEN 106500 ELSE 105500, 110000 - 300 * (k - 1),
                IF k \in {3, 6, 9} THEN lows[k \div 3] ELSE 105000, 106000,
                IF k \in downs THEN vol[1] ELSE vol[2])
        NoVolume(bar) == [c \in {"Open", "High", "Low", "Close"} |-> bar[c]]
    IN  {[k \in 1..11 |-> VcpBar(k, lows, downs, vol)] :
            lows \in Lows, downs \in Downs, vol \in {<<1, 2>>, <<2, 2>>, <<3, 2>>, <<None, 2>>, <<0, 0>>}}
        \cup {[k \in 1..11 |-> NoVolume(VcpBar(k, lows, downs, <<3, 2>>))] : lows \in Lows, downs \in Downs}

\* The last set holds three series.  One is a shallow decline from the High
\* of week 2 that ends with a wide week and a tight one: a pivot-high
\* candidate from week 2 ends before the last week, and the candidate
\* anchored on the forming pivot runs from week 2 to the last week.  The
\* other has its lowest Low in its first week, the week of its highest
\* High, then falling Highs with a pivot low in week 4 and a lower one in
\* week 7.  The third has 14 weeks: its highest High is in week 1, ahead
\* of the 13-week trailing window, and the highest High of the window is
\* in week 3.
WeeklyInputs ==
    ShortWeekly \cup RunupWeekly \cup LongWeekly \cup BreakoutWeekly \cup PennyWeekly \cup TwoLowsWeekly \cup VcpWeekly
      \cup {<<BarD, BarB, BarD, BarD, BarD, Bar(9904, 10104, 9204, 9904, 3), BarT>>,
            [k \in 1..9 |-> Bar(10004, 10324 - 20 * k,
                                IF k = 1 THEN 9004 ELSE IF k = 4 THEN 9854 ELSE IF k = 7 THEN 9754 ELSE 9954,
                                10004, 3)],
            [k \in 1..14 |-> Bar(10004, IF k = 1 THEN 11004 ELSE IF k = 3 THEN 10504 ELSE 10204,
                                 IF k = 8 THEN 9004 ELSE 9954, 10004, 3)]}

\* (max High - min Low) / max High * 100 < 8 over weeks a..b: the test of
\* pivot_forming on a window made of exactly these weeks.
TightWeeks(w, a, b) ==
    LET hi == MaxHigh(w, a, b)
        lo == MinOf({w[k].Low : k \in a..b})
    IN  (hi - lo) * 100 < 8 * hi

RangePctWeeks(w, a, b) ==
    LET hi == MaxHigh(w, a, b)
        lo == MinOf({w[k].Low : k \in a..b})
    IN  Round2Quot(<<(hi - lo) * 100, hi>>)

NotForming ==
    [forming |-> FALSE, days |-> None, range_pct |-> None, tight_closes |-> FALSE,
     pivot_start_date |-> None, pivot_end_date |-> None, pivot_high |-> None]

\* The results of pivot_forming that a daily series ending on the Friday of
\* the last week, five bars a week, can give together with weekly series w:
\* the 10-day window is the last two weeks, the 5-day window the last week,
\* the 6-day window adds the previous Friday.
PivotInputs(w) ==
    LET n == Len(w)
        found(L, first, a) ==
            [forming |-> TRUE, days |-> L, range_pct |-> RangePctWeeks(w, a, n),
             tight_closes |-> (L = 10), pivot_start_date |-> first,
             pivot_end_date |-> WeekDate(n), pivot_high |-> Round2Price(MaxHigh(w, a, n))]
    IN  IF n = 0 THEN {NotForming}
        ELSE IF n >= 2 /\ TightWeeks(w, n - 1, n) THEN {found(10, WeekDate(n - 1) - 4, n - 1)}
        ELSE IF TightWeeks(w, n, n) THEN {found(5, WeekDate(n) - 4, n), found(6, WeekDate(n - 1), n)}
        ELSE {NotForming}

\* The daily frame as find_bases and compute_pivot_result read it: its
\* length, the weeks at which uptrend_at_date passes, the result of
\* pivot_volume_vs_average, its columns, and the ATR that ta.atr gives at the
\* close of each week (positive wherever the frame has 14 bars behind it;
\* it falls, stays or rises between two weeks according to the weeks).
DailyInputs(w) ==
    LET n == Len(w)
        columns == {"Open", "High", "Low", "Close", "Volume", "SMA_50", "SMA_150", "SMA_200"}
        atr(m) == [k \in 1..n |-> 300 - 10 * (k % m)]
    IN  { [len |-> MIN_DAILY_BARS, uptrend |-> 1..n, volume_at_pivot |-> "below", columns |-> columns, atr |-> atr(3)],
          [len |-> MIN_DAILY_BARS, uptrend |-> {1}, volume_at_pivot |-> "above", columns |-> columns, atr |-> atr(5)],
          [len |-> MIN_DAILY_BARS, uptrend |-> {}, volume_at_pivot |-> "above", columns |-> columns, atr |-> atr(3)],
          [len |-> MIN_DAILY_BARS - 1, uptrend |-> 1..n, volume_at_pivot |-> "below", columns |-> columns, atr |-> atr(3)],
          [len |-> 0, uptrend |-> {}, volume_at_pivot |-> NoType, columns |-> columns, atr |-> << >>] }

---------------------------------------------------------------------------
\* Specification of base detection and of the scan of one symbol

CallIdle == /\ args = << >> /\ ret = << >>
ScanIdle == /\ symbols = << >> /\ market = << >> /\ results = << >>
            /\ cursor = 0 /\ full_rows = << >> /\ tomorrow_rows = << >>

InitBases ==
    /\ weekly \in WeeklyInputs
    /\ daily \in DailyInputs(weekly)
    /\ pivot \in PivotInputs(weekly)
    /\ bases = << >>
    /\ row = DefaultRow("SYM", "")
    /\ pc = "start"
    /\ CallIdle
    /\ ScanIdle

\* A direct call of find_bases (pages, scripts/diagnose_bases.py).
FindBases ==
    /\ pc = "start"
    /\ bases' = find_bases(weekly, daily, pivot)
    /\ daily' = DailyAfterFindBases(weekly, daily)
    /\ pc' = "found"
    /\ UNCHANGED <<weekly, pivot, row, callVars, scanVars>>

\* A second call on the frames the first call left behind; its list is
\* kept in ret.
FindBasesAgain ==
    /\ pc = "found"
    /\ ret' = <<find_bases(weekly, daily, pivot)>>
    /\ daily' = DailyAfterFindBases(weekly, daily)
    /\ pc' = "found_twice"
    /\ UNCHANGED <<weekly, pivot, bases, row, args, scanVars>>

\* run_scan's loop body for the symbol, with the default gate.
RunScanSymbol ==
    /\ pc = "start"
    /\ bases' = find_bases(weekly, daily, pivot)
    /\ row' = ScanRow(compute_pivot_result("SYM", "", weekly, daily, pivot), DEFAULT_DISTANCE_PCT_MAX, None, FALSE)
    /\ daily' = DailyAfterFindBases(weekly, daily)
    /\ pc' = "scanned"
    /\ UNCHANGED <<weekly, pivot, callVars, scanVars>>

NextBases == FindBases \/ FindBasesAgain \/ RunScanSymbol

SpecBases == InitBases /\ [][NextBases]_vars

---------------------------------------------------------------------------
\* Properties of find_bases (specification SpecBases)

Returned == pc # "start"
BaseSet == {bases[k] : k \in 1..Len(bases)}
LastWeek == WeekDate(Len(weekly))
HiOf(b) == WeekOf(b.start_date)
EndOf(b) == WeekOf(b.end_date)
\* Pivot lows strictly after the start week, up to the end week, in order.
LowsOf(b) == SelectSeq(_pivot_highs_lows(weekly).lows, LAMBDA i : HiOf(b) < i /\ i <= EndOf(b))
\* The base records find_bases has generated when it deduplicates.
Generated ==
    IF Len(weekly) < 4 \/ daily.len < MIN_DAILY_BARS THEN << >> ELSE BaseRecords(weekly, daily, pivot)
Reversed(s) == [k \in 1..Len(s) |-> s[Len(s) + 1 - k]]
SurvivorsOf(out, start) == {k \in 1..Len(out) : out[k].start_date = start}

\* C1: the returned list holds at most one base per start_date; and when two
\* generated base records share a start_date, one ending at the last week
\* and one earlier, exactly one record of that start_date survives the
\* deduplication and it is the one ending at the last week (is_current),
\* in whichever order the two were generated.
C1_DedupKeepsCurrent ==
    Returned =>
      /\ \A i, j \in 1..Len(bases) : i # j => bases[i].start_date # bases[j].start_date
      /\ \A i, j \in 1..Len(Generated) :
            (/\ Generated[i].start_date = Generated[j].start_date
             /\ Generated[i].end_date = LastWeek
             /\ Generated[j].end_date < LastWeek)
            => \A out \in {bases, Deduplicate(Generated, LastWeek), Deduplicate(Reversed(Generated), LastWeek)} :
                 /\ Cardinality(SurvivorsOf(out, Generated[i].start_date)) = 1
                 /\ \A k \in SurvivorsOf(out, Generated[i].start_date) :
                       out[k].is_current /\ out[k].end_date = LastWeek

C1_Witness ==
    /\ Returned
    /\ \E i, j \in 1..Len(Generated) :
          /\ i < j
          /\ Generated[i].start_date = Generated[j].start_date
          /\ Generated[i].end_date < LastWeek
          /\ Generated[j].end_date = LastWeek
          /\ \E b \in BaseSet : b.start_date = Generated[j].start_date /\ b.is_current

\* The level each base type is said to break out from.
CupFamily == {"Cup completion cheat", "Low cheat", "Power Play"}
HandleHigh(b) == MaxHigh(weekly, LowsOf(b)[2], EndOf(b))
Neckline(b) == MaxHigh(weekly, LowsOf(b)[1], LowsOf(b)[2])
\* The second pivot low of the interval is a handle: above the midpoint of
\* [base_low, prior_high] and above base_low.
SecondLowIsHandle(b) ==
    /\ Len(LowsOf(b)) >= 2
    /\ 2 * (weekly[LowsOf(b)[2]].Low - b.base_low) > b.prior_high - b.base_low
    /\ weekly[LowsOf(b)[2]].Low > b.base_low

LevelOf(b) ==
    IF b.base_type = "Darvas box" THEN MaxHigh(weekly, HiOf(b), EndOf(b))
    ELSE IF b.base_type = "Double bottom" THEN Neckline(b)
    ELSE IF b.base_type = "Cup w/ handle" /\ SecondLowIsHandle(b) THEN HandleHigh(b)
    ELSE b.prior_high

FirstCloseAtOrAbove(b, level) ==
    LET hits == {i \in HiOf(b)..EndOf(b) : weekly[i].Close >= level}
    IN  IF hits = {} THEN None ELSE WeekDate(MinOf(hits))

\* C4 as stated: buy_point_date is the date of the first week of the
\* interval whose Close >= the base's resistance, null iff there is none.
C4_BuyPointAsStated ==
    Returned => \A b \in BaseSet : b.buy_point_date = FirstCloseAtOrAbove(b, b.resistance)

\* C4 (amended): buy_point_date is the date of the first week of the
\* interval whose Close >= the unrounded resistance level, null iff there is
\* none; weeks after the end of the interval are not consulted.
C4_BuyPointUnrounded ==
    Returned => \A b \in BaseSet :
      /\ b.buy_point_date = FirstCloseAtOrAbove(b, LevelOf(b))
      /\ b.buy_point_date # None => b.start_date <= b.buy_point_date /\ b.buy_point_date <= b.end_date

\* A returned base without buy point, although a week after its end closes
\* at or above its level.
C4_Witness ==
    /\ Returned
    /\ \E b \in BaseSet :
          /\ b.buy_point_date = None
          /\ \E i \in (EndOf(b) + 1)..Len(weekly) : weekly[i].Close >= LevelOf(b)

\* C5 as stated: distance_pct is 0 when buy_point_date is not null or
\* resistance <= 0, else (resistance - latest close) / resistance * 100 with
\* the Close of the interval's last week; it is never negative.
\* (distance_pct is in hundredths: d / 100 = (r - c) / r * 100.)
C5_DistanceAsStated ==
    Returned => \A b \in BaseSet :
      /\ b.distance_pct >= 0
      /\ IF b.buy_point_date # None \/ b.resistance <= 0
         THEN b.distance_pct = 0
         ELSE b.distance_pct * b.resistance = (b.resistance - weekly[EndOf(b)].Close) * 10000

\* C5 (amended): distance_pct is 0 when buy_point_date is not null or the
\* level is <= 0, else (level - latest close) / level * 100 rounded to two
\* decimals, level being the unrounded resistance; it is never negative.
C5_DistanceRounded ==
    Returned => \A b \in BaseSet :
      /\ b.distance_pct >= 0
      /\ IF b.buy_point_date # None \/ LevelOf(b) <= 0
         THEN b.distance_pct = 0
         ELSE b.distance_pct = Round2Quot(<<(LevelOf(b) - weekly[EndOf(b)].Close) * 100, LevelOf(b)>>)

\* Returned bases of both kinds: one triggered, one not yet triggered and at
\* a distance that two decimals do not express exactly.
C5_Witness ==
    /\ Returned
    /\ \E b \in BaseSet : b.buy_point_date # None /\ b.distance_pct = 0 /\ weekly[EndOf(b)].Close # LevelOf(b)
    /\ \E b \in BaseSet :
          /\ b.buy_point_date = None /\ b.distance_pct > 0
          /\ b.distance_pct * LevelOf(b) # (LevelOf(b) - weekly[EndOf(b)].Close) * 10000

\* C7: a row marked buyable has the last weekly close of the series strictly
\* below its resistance.
C7_BuyableNotBrokenOut ==
    (pc = "scanned" /\ row.buyable) => weekly[Len(weekly)].Close < row.resistance

---------------------------------------------------------------------------
\* Specification of one call of _classify_base on arguments of the kind
\* find_bases passes: prior_high > 0, base_low <= prior_high, base_low <=
\* latest_close, low1 and low2 present as far as there are pivot lows,
\* has_handle only with two lows.

MaxDuration == 66

\* depth_pct around DARVAS_MAX_DEPTH_PCT and prior_8wk_gain around
\* POWER_PLAY_MIN_RUNUP.
DepthInputs == {<<2499, 100>>, <<25, 1>>, <<2501, 100>>}
GainInputs == {NoQuot, <<89, 100>>, <<90, 100>>, <<91, 100>>}
\* prior_high, base_low, latest_close: a cup of range 30000 with closes at
\* the low, at the lower-third bound, just above it and above prior_high,
\* and a base without range.
PriceInputs ==
    {[prior_high |-> 120000, base_low |-> 90000, latest_close |-> c] : c \in {90000, 100000, 100001, 125000}}
    \cup {[prior_high |-> 120000, base_low |-> 120000, latest_close |-> c] : c \in {120000, 120001}}
\* two_lows, low1, low2, has_handle; 5 % of prior_high is 6000.
LowInputs ==
    {[two_lows |-> FALSE, low1 |-> None, low2 |-> None, has_handle |-> FALSE],
     [two_lows |-> FALSE, low1 |-> 90000, low2 |-> None, has_handle |-> FALSE]}
    \cup {[two_lows |-> TRUE, low1 |-> l[1], low2 |-> l[2], has_handle |-> h] :
            l \in {<<90000, 96000>>, <<90000, 96001>>, <<96001, 90000>>}, h \in BOOLEAN}

ClassifyArgs ==
    {[duration_weeks |-> d, depth_pct |-> dp, prior_8wk_gain |-> g, is_current_base |-> cur] @@ pr @@ lo :
        d \in 1..MaxDuration, dp \in DepthInputs, g \in GainInputs, cur \in BOOLEAN,
        pr \in PriceInputs, lo \in LowInputs}

BasesIdle ==
    /\ weekly = << >> /\ daily = [len |-> 0, uptrend |-> {}, volume_at_pivot |-> NoType]
    /\ pivot = NotForming /\ bases = << >> /\ row = DefaultRow("", "")

InitClassify ==
    /\ args \in ClassifyArgs
    /\ ret = << >>
    /\ pc = "start"
    /\ BasesIdle
    /\ ScanIdle

ClassifyBase ==
    /\ pc = "start"
    /\ ret' = <<_classify_base(args.duration_weeks, args.depth_pct, args.prior_high, args.base_low, args.latest_close, args.two_lows, args.low1, args.low2, args.has_handle, args.prior_8wk_gain, args.is_current_base)>>
    /\ pc' = "classified"
    /\ UNCHANGED <<args, baseVars, scanVars>>

NextClassify == ClassifyBase

SpecClassify == InitClassify /\ [][NextClassify]_vars

---------------------------------------------------------------------------
\* Properties of _classify_base (specification SpecClassify)

InWeeks(d, lo, hi) == lo <= d /\ d <= hi
CupLo(a) == IF a.is_current_base THEN 5 ELSE 6
\* The six documented rules, as conditions on the arguments.
Rule1(a) == InWeeks(a.duration_weeks, 2, 6) /\ a.prior_8wk_gain # NoQuot /\ a.prior_8wk_gain[1] * 10 >= a.prior_8wk_gain[2] * 9
Rule2(a) == InWeeks(a.duration_weeks, 4, 6) /\ a.depth_pct[1] <= 25 * a.depth_pct[2]
Rule3(a) == InWeeks(a.duration_weeks, CupLo(a), 52) /\ ~a.has_handle
Rule4(a) == InWeeks(a.duration_weeks, 7, 65) /\ a.has_handle
Rule5(a) == InWeeks(a.duration_weeks, 7, 65) /\ a.two_lows /\ 20 * Abs(a.low1 - a.low2) <= a.prior_high
LowerThird(a) == 3 * a.latest_close <= 2 * a.base_low + a.prior_high
Documented(a) ==
    CASE Rule1(a) -> "Power Play"
      [] ~Rule1(a) /\ Rule2(a) -> "Darvas box"
      [] ~Rule1(a) /\ ~Rule2(a) /\ Rule3(a) -> IF LowerThird(a) THEN "Low cheat" ELSE "Cup completion cheat"
      [] ~Rule1(a) /\ ~Rule2(a) /\ ~Rule3(a) /\ Rule4(a) -> "Cup w/ handle"
      [] ~Rule1(a) /\ ~Rule2(a) /\ ~Rule3(a) /\ ~Rule4(a) /\ Rule5(a) -> "Double bottom"
      [] OTHER -> IF InWeeks(a.duration_weeks, CupLo(a), 52) THEN "Cup completion cheat"
                  ELSE IF InWeeks(a.duration_weeks, 7, 65) THEN "Cup w/ handle"
                  ELSE NoType

\* C2: _classify_base returns the type of the first matching rule of the
\* documented priority (Power Play, Darvas box, Low cheat / Cup completion
\* cheat, Cup w/ handle, Double bottom, fallback), and no type when none
\* matches.
C2_ClassifyPriority ==
    pc = "classified" => ret[1] = Documented(args)

\* A call where both the Power Play rule and the Darvas box rule match and
\* Power Play is returned.
C2_Witness ==
    /\ pc = "classified"
    /\ Rule1(args) /\ Rule2(args)
    /\ ret[1] = "Power Play"

---------------------------------------------------------------------------
\* Specification of one call of pivot_quality_score or is_buyable on a row
\* of the shape compute_pivot_result returns, leadership fields included.
\* Percentages and the score are in hundredths, rs_ratio in hundredths.

RowInputs ==
    {[pivot_forming |-> f, in_base |-> ib, resistance |-> rs, buy_point_date |-> bp,
      distance_pct |-> d, pivot_range_pct |-> rg, tight_closes |-> tc, volume_at_pivot |-> v,
      trend_template_score |-> ts, rs_ratio |-> rr] @@ DefaultRow("SYM", "") :
        f \in BOOLEAN, ib \in BOOLEAN, rs \in {None, 10000}, bp \in {None, WeekDate(5)},
        d \in {None, 0, 300, 301, 501}, rg \in {None, 0, 582, 900}, tc \in BOOLEAN,
        v \in {NoType, "below", "above"}, ts \in {None, 5, 6}, rr \in {None, 99, 100}}

GateArgs ==
    {[distance_pct_max |-> dm, min_trend_score |-> mt, require_rs_above_1 |-> rq] :
        dm \in {DEFAULT_DISTANCE_PCT_MAX, 500}, mt \in {None, 0, 6}, rq \in BOOLEAN}

InitGate ==
    /\ row \in RowInputs
    /\ args \in GateArgs
    /\ ret = << >>
    /\ pc = "start"
    /\ weekly = << >> /\ daily = [len |-> 0, uptrend |-> {}, volume_at_pivot |-> NoType]
    /\ pivot = NotForming /\ bases = << >>
    /\ ScanIdle

PivotQualityScore ==
    /\ pc = "start"
    /\ ret' = <<pivot_quality_score(row)>>
    /\ pc' = "scored"
    /\ UNCHANGED <<args, baseVars, scanVars>>

IsBuyable ==
    /\ pc = "start"
    /\ ret' = <<is_buyable(row, args.distance_pct_max, args.min_trend_score, args.require_rs_above_1)>>
    /\ pc' = "gated"
    /\ UNCHANGED <<args, baseVars, scanVars>>

NextGate == PivotQualityScore \/ IsBuyable

SpecGate == InitGate /\ [][NextGate]_vars

---------------------------------------------------------------------------
\* Properties of the gate and the score (specification SpecGate)

ScoreOrZero(r) == IF r.trend_template_score = None THEN 0 ELSE r.trend_template_score

Floor0(x) == IF x < 0 THEN 0 ELSE x
RangePoints(r) == IF r.pivot_range_pct = None THEN 0 ELSE Floor0(4000 - 5 * r.pivot_range_pct)
ProximityPoints(r) ==
    IF r.distance_pct = None \/ r.buy_point_date # None THEN 0
    ELSE IF r.distance_pct <= 0 THEN 1500
    ELSE Floor0(1500 - 3 * r.distance_pct)

\* C8: pivot_quality_score is 0 when pivot_forming is false, else the sum of
\* the range points, 15 for tight closes, 20 for in_base, 10 for volume
\* below average and the proximity points; with pivot_range_pct >= 0 it lies
\* in [0, 100].
C8_QualityScore ==
    pc = "scored" =>
      /\ ret[1] = IF ~row.pivot_forming THEN 0
                  ELSE RangePoints(row)
                       + (IF row.tight_closes THEN 1500 ELSE 0)
                       + (IF row.in_base THEN 2000 ELSE 0)
                       + (IF row.volume_at_pivot = "below" THEN 1000 ELSE 0)
                       + ProximityPoints(row)
      /\ row.pivot_range_pct >= 0 => 0 <= ret[1] /\ ret[1] <= 10000

\* A forming pivot whose range and distance are both beyond their floors
\* (range 9 % > 8 %, distance 5.01 % > 5 %): neither contributes.
C8_Witness ==
    /\ pc = "scored" /\ row.pivot_forming
    /\ row.pivot_range_pct = 900 /\ row.distance_pct = 501 /\ row.buy_point_date = None
    /\ ret[1] = (IF row.tight_closes THEN 1500 ELSE 0) + (IF row.in_base THEN 2000 ELSE 0) + (IF row.volume_at_pivot = "below" THEN 1000 ELSE 0)

---------------------------------------------------------------------------
\* Specification of a scan run: run_scan over a symbol list, one loop
\* iteration per step, then main's sorting and its two reports.

\* Longest symbol list.
MaxSymbols == 3

\* Items of the list: plain strings and dicts with symbol and name, some
\* with surrounding blanks, some blank.
Items ==
    {[is_dict |-> FALSE, symbol |-> "A", name |-> ""],
     [is_dict |-> TRUE, symbol |-> "A", name |-> "N"],
     [is_dict |-> TRUE, symbol |-> " A", name |-> "M"],
     [is_dict |-> FALSE, symbol |-> "B", name |-> ""],
     [is_dict |-> FALSE, symbol |-> "", name |-> ""],
     [is_dict |-> TRUE, symbol |-> " ", name |-> "N"]}
SymbolLists == UNION {[1..n -> Items] : n \in 0..MaxSymbols}

\* What the computation of a symbol meets: a failure (no data, a network
\* error), too short a history, or the breakout series with each of its
\* daily frames and pivots.
Outcomes ==
    {[raises |-> TRUE, weekly |-> << >>, daily |-> [len |-> 0, uptrend |-> {}, volume_at_pivot |-> NoType], pivot |-> NotForming]}
    \cup {[raises |-> FALSE, weekly |-> w, daily |-> d, pivot |-> p] :
            w \in BreakoutWeekly, d \in {x \in DailyInputs(CHOOSE x \in BreakoutWeekly : TRUE) : x.len # MIN_DAILY_BARS - 1}, p \in PivotInputs(CHOOSE x \in BreakoutWeekly : TRUE)}

\* The gate options handed to run_scan by main: the defaults, and a
\* maximum distance of 1 %.
ScanArgs ==
    {[distance_pct_max |-> dm, min_trend_score |-> None, require_rs_above_1 |-> FALSE] : dm \in {DEFAULT_DISTANCE_PCT_MAX, 100}}

InitScan ==
    /\ symbols \in SymbolLists
    /\ market \in [{"A", "B"} -> Outcomes]
    /\ args \in ScanArgs
    /\ results = << >>
    /\ cursor = 0
    /\ full_rows = << >>
    /\ tomorrow_rows = << >>
    /\ ret = << >>
    /\ pc = "scanning"
    /\ BasesIdle

\* The loop has a next iteration, and its symbol; the loop is exhausted.
MoreSymbols == pc = "scanning" /\ cursor < Len(sym_list(symbols))
NextSymbol == sym_list(symbols)[cursor + 1]
LoopDone == pc = "scanning" /\ cursor = Len(sym_list(symbols))

\* An iteration in which compute_pivot_result returns a row.
ScanSymbolOk ==
    /\ MoreSymbols
    /\ ~market[NextSymbol].raises
    /\ results' = run_scan_step(results, NextSymbol, name_by_symbol(symbols, NextSymbol), market[NextSymbol], args)
    /\ cursor' = cursor + 1
    /\ UNCHANGED <<symbols, market, full_rows, tomorrow_rows, args, ret, baseVars, pc>>

\* An iteration in which compute_pivot_result raises.
ScanSymbolRaise ==
    /\ MoreSymbols
    /\ market[NextSymbol].raises
    /\ results' = run_scan_step(results, NextSymbol, name_by_symbol(symbols, NextSymbol), market[NextSymbol], args)
    /\ cursor' = cursor + 1
    /\ UNCHANGED <<symbols, market, full_rows, tomorrow_rows, args, ret, baseVars, pc>>

\* run_scan returns its results.
RunScanReturn ==
    /\ LoopDone
    /\ pc' = "returned"
    /\ ret' = results
    /\ UNCHANGED <<symbols, market, results, cursor, full_rows, tomorrow_rows, args, baseVars>>

\* main after run_scan (scripts/pivot_breakout_scan.py 127-144): sort in
\* place, write the full report, filter and write the buyable report.
\* main does not scan an empty list (lines 105-109).
MainReports ==
    /\ pc = "returned"
    /\ Len(symbols) > 0
    /\ results' = sort_by_quality(results)
    /\ full_rows' = sort_by_quality(results)
    /\ tomorrow_rows' = SelectSeq(sort_by_quality(results), LAMBDA r : r.buyable)
    /\ pc' = "written"
    /\ UNCHANGED <<symbols, market, cursor, args, ret, baseVars>>

NextScan == ScanSymbolOk \/ ScanSymbolRaise \/ RunScanReturn \/ MainReports

SpecScan == InitScan /\ [][NextScan]_vars

---------------------------------------------------------------------------
\* Properties of the scan (specification SpecScan)

ScanReturned == pc \in {"returned", "written"}
\* The input symbols that are not blank, stripped, in input order.
NonBlank == SelectSeq([i \in 1..Len(symbols) |-> Strip(symbols[i].symbol)], LAMBDA x : x # "")
\* The row of a symbol computed on its own.
RowAlone(symbol) ==
    ScanRow(compute_pivot_result(symbol, name_by_symbol(symbols, symbol), market[symbol].weekly, market[symbol].daily, market[symbol].pivot), args.distance_pct_max, args.min_trend_score, args.require_rs_above_1)
SafeDefault(r) ==
    /\ ~r.pivot_forming /\ ~r.in_base /\ ~r.tight_closes /\ ~r.buyable
    /\ r.quality_score = 0
    /\ r.base_type = NoType /\ r.volume_at_pivot = NoType
    /\ \A v \in {r.pivot_days, r.pivot_range_pct, r.pivot_high, r.resistance, r.distance_pct, r.buy_point_date, r.trend_template_score, r.rs_ratio} : v = None

\* C9: run_scan completes (while it scans there is one row per symbol
\* passed, and either the loop is exhausted and returns, or the next
\* iteration, raising or not, adds one row), and what it returns has one
\* row per non-blank input symbol in input order: the safe default row for
\* a symbol whose computation raises, and for any other symbol the row it
\* gets when computed alone.
C9_ScanCompletes ==
    /\ pc = "scanning" =>
         /\ cursor <= Len(NonBlank) /\ Len(results) = cursor
         /\ \/ MoreSymbols /\ ~market[NextSymbol].raises /\ Len(run_scan_step(results, NextSymbol, "", market[NextSymbol], args)) = cursor + 1
            \/ MoreSymbols /\ market[NextSymbol].raises /\ Len(run_scan_step(results, NextSymbol, "", market[NextSymbol], args)) = cursor + 1
            \/ LoopDone
    /\ ScanReturned =>
         /\ Len(ret) = Len(NonBlank)
         /\ \A k \in 1..Len(ret) :
              /\ ret[k].symbol = NonBlank[k]
              /\ market[NonBlank[k]].raises => SafeDefault(ret[k])
              /\ ~market[NonBlank[k]].raises => ret[k] = RowAlone(NonBlank[k])

\* A returned scan of three symbols with a blank item skipped, where one
\* symbol failed and the symbol after it got a buyable row.
C9_Witness ==
    /\ ScanReturned
    /\ Len(symbols) = 3 /\ Len(ret) = 2
    /\ market[ret[1].symbol].raises
    /\ ~market[ret[2].symbol].raises /\ ret[2].buyable

SameRows(s, t) ==
    /\ Len(s) = Len(t)
    /\ \A r \in Range(s) \cup Range(t) :
         Cardinality({i \in 1..Len(s) : s[i] = r}) = Cardinality({i \in 1..Len(t) : t[i] = r})

\* C10: the full report holds every row run_scan returned, in
\* non-increasing order of quality_score (null as 0), and the buyable
\* report is the sub-sequence of its buyable rows.
C10_ReportsSorted ==
    pc = "written" =>
      /\ SameRows(full_rows, ret)
      /\ \A i \in 1..Len(full_rows), j \in 1..Len(full_rows) :
           i < j => ScoreKey(full_rows[i]) >= ScoreKey(full_rows[j])
      /\ tomorrow_rows = SelectSeq(full_rows, LAMBDA r : r.buyable)

\* Reports written from results that were not in order: a failed symbol
\* first, a buyable row after it.
C10_Witness ==
    /\ pc = "written"
    /\ Len(ret) >= 2
    /\ ScoreKey(ret[1]) < ScoreKey(ret[2])
    /\ Len(tomorrow_rows) >= 1 /\ Len(tomorrow_rows) < Len(full_rows)

---------------------------------------------------------------------------
\* Daily frames.  A frame is its set of columns and its rows in index
\* order; a row carries its date and a value for each column.  None stands
\* for NaN in a value.

PIVOT_FORMING_MIN_DAYS == 3
PIVOT_FORMING_MAX_DAYS == 10
PIVOT_FORMING_MAX_RANGE_PCT == 8
PIVOT_TIGHT_CLOSES_DAYS == 3
PIVOT_TIGHT_CLOSES_MAX_PCT == 3

OHLCV == {"Open", "High", "Low", "Close", "Volume"}
Frame(columns, rows) == [columns |-> columns, rows |-> rows]
\* pd.DataFrame()
EmptyFrame == Frame({}, << >>)
\* df.tail(k)
TailRows(rows, k) == IF Len(rows) <= k THEN rows ELSE SubSeq(rows, Len(rows) - k + 1, Len(rows))
\* The date of the k-th trading day of a calendar without holidays
\* (Monday to Friday; the Friday of week w is day 7 * w).
DayDate(k) == 7 * ((k - 1) \div 5 + 1) - 4 + ((k - 1) % 5)

\* pivot_forming that returns the shortest qualifying window.
pivot_forming_Shortest(df_daily) ==
    LET n == Len(df_daily.rows)
        tail == TailRows(df_daily.rows, PIVOT_FORMING_MAX_DAYS)
        w_high(L) == MaxOf({TailRows(tail, L)[k].High : k \in 1..L})
        w_low(L) == MinOf({TailRows(tail, L)[k].Low : k \in 1..L})
        ok(L) == w_high(L) > 0 /\ (w_high(L) - w_low(L)) * 100 < PIVOT_FORMING_MAX_RANGE_PCT * w_high(L)
        Ls == {L \in PIVOT_FORMING_MIN_DAYS..Len(tail) : ok(L)}
    IN  IF n < PIVOT_FORMING_MIN_DAYS \/ ~({"High", "Low", "Close"} \subseteq df_daily.columns) \/ Ls = {}
        THEN NotForming
        ELSE LET L == MinOf(Ls)
                 window == TailRows(tail, L)
                 closes == {TailRows(window, PIVOT_TIGHT_CLOSES_DAYS)[k].Close : k \in 1..PIVOT_TIGHT_CLOSES_DAYS}
             IN  [forming |-> TRUE, days |-> L,
                  range_pct |-> Round2Quot(<<(w_high(L) - w_low(L)) * 100, w_high(L)>>),
                  tight_closes |-> (MaxOf(closes) + MinOf(closes) > 0
                                    /\ 200 * (MaxOf(closes) - MinOf(closes)) <= PIVOT_TIGHT_CLOSES_MAX_PCT * (MaxOf(closes) + MinOf(closes))),
                  pivot_start_date |-> window[1].date, pivot_end_date |-> window[L].date,
                  pivot_high |-> Round2Price(w_high(L))]

\* sepa.pivot_forming with its default parameters: the loop over L from
\* min(len(tail), max_days) down to min_days, returning at the first L
\* whose window has w_high > 0 and range_pct < max_range_pct.
RECURSIVE PivotFormingFrom(_, _)
PivotFormingFrom(tail, L) ==
    IF L < PIVOT_FORMING_MIN_DAYS THEN NotForming
    ELSE LET window == TailRows(tail, L)
             w_high == MaxOf({window[k].High : k \in 1..L})
             w_low == MinOf({window[k].Low : k \in 1..L})
             last_n == TailRows(window, PIVOT_TIGHT_CLOSES_DAYS)
             c_max == MaxOf({last_n[k].Close : k \in 1..Len(last_n)})
             c_min == MinOf({last_n[k].Close : k \in 1..Len(last_n)})
         IN  IF w_high <= 0 THEN PivotFormingFrom(tail, L - 1)
             \* range_pct >= max_range_pct, range_pct = (w_high - w_low) / w_high * 100
             ELSE IF (w_high - w_low) * 100 >= PIVOT_FORMING_MAX_RANGE_PCT * w_high
             THEN PivotFormingFrom(tail, L - 1)
             ELSE [forming |-> TRUE, days |-> L,
                   range_pct |-> Round2Quot(<<(w_high - w_low) * 100, w_high>>),
                   \* midpoint > 0 and (c_max - c_min) / midpoint * 100 <= tight_closes_pct
                   tight_closes |-> (L >= PIVOT_TIGHT_CLOSES_DAYS /\ c_max + c_min > 0
                                     /\ 200 * (c_max - c_min) <= PIVOT_TIGHT_CLOSES_MAX_PCT * (c_max + c_min)),
                   pivot_start_date |-> window[1].date, pivot_end_date |-> window[L].date,
                   pivot_high |-> Round2Price(w_high)]

\* pivot_forming that tries no window shorter than 4 bars.
pivot_forming_MinDays4(df_daily) ==
    IF Len(df_daily.rows) = 0 \/ Len(df_daily.rows) < PIVOT_FORMING_MIN_DAYS THEN NotForming
    ELSE IF ~({"High", "Low", "Close"} \subseteq df_daily.columns) THEN NotForming
    ELSE LET tail == TailRows(df_daily.rows, PIVOT_FORMING_MAX_DAYS)
             found == PivotFormingFrom(tail, MinOf({Len(tail), PIVOT_FORMING_MAX_DAYS}))
         IN  IF found.forming /\ found.days < 4 THEN NotForming ELSE found

\* pivot_forming whose closes are tight only strictly below the bound.
pivot_forming_TightExclusive(df_daily) ==
    IF Len(df_daily.rows) = 0 \/ Len(df_daily.rows) < PIVOT_FORMING_MIN_DAYS THEN NotForming
    ELSE IF ~({"High", "Low", "Close"} \subseteq df_daily.columns) THEN NotForming
    ELSE LET tail == TailRows(df_daily.rows, PIVOT_FORMING_MAX_DAYS)
             found == PivotFormingFrom(tail, MinOf({Len(tail), PIVOT_FORMING_MAX_DAYS}))
             last_n == TailRows(tail, PIVOT_TIGHT_CLOSES_DAYS)
             c_max == MaxOf({last_n[k].Close : k \in 1..Len(last_n)})
             c_min == MinOf({last_n[k].Close : k \in 1..Len(last_n)})
         IN  IF ~found.forming THEN found
             ELSE [found EXCEPT !.tight_closes = c_max + c_min > 0 /\ 200 * (c_max - c_min) < PIVOT_TIGHT_CLOSES_MAX_PCT * (c_max + c_min)]

pivot_forming(df_daily) ==
    IF Len(df_daily.rows) = 0 \/ Len(df_daily.rows) < PIVOT_FORMING_MIN_DAYS THEN NotForming
    ELSE IF ~({"High", "Low", "Close"} \subseteq df_daily.columns) THEN NotForming
    ELSE LET tail == TailRows(df_daily.rows, PIVOT_FORMING_MAX_DAYS)
         IN  IF Len(tail) < PIVOT_FORMING_MIN_DAYS THEN NotForming
             ELSE PivotFormingFrom(tail, MinOf({Len(tail), PIVOT_FORMING_MAX_DAYS}))

---------------------------------------------------------------------------
\* Specification of one call of pivot_forming on a daily frame.

\* Longest daily series enumerated bar by bar, and longest run of bars put
\* in front of such a series.
MaxDays == 6
MaxFill == 6

DayBar(h, l, c) == [Open |-> c, High |-> h, Low |-> l, Close |-> c, Volume |-> 1000]
\* Range 7 % of a High of 10.000; range exactly 8 % of it; a higher High;
\* a bar without price.
DayA == DayBar(10000, 9300, 9850)
DayB == DayBar(10000, 9200, 9400)
DayC == DayBar(10100, 9400, 10100)
DayZ == DayBar(0, 0, 0)
DayShapes == {DayA, DayB, DayC, DayZ}
Dated(bars) == [k \in 1..Len(bars) |-> [date |-> DayDate(k)] @@ bars[k]]
\* The last set holds series of 3 and 4 bars in a range of 3.9 % whose
\* closes lie 3 % of their midpoint apart (9850 and 10150), a little more
\* (9850 and 10151) or less.
DailySeries ==
    UNION {[1..n -> DayShapes] : n \in 0..MaxDays}
    \cup {[k \in 1..f |-> shape] \o t : f \in 1..MaxFill, shape \in {DayA, DayC}, t \in [1..MaxDays -> {DayA, DayB, DayC}]}
    \cup UNION {[1..n -> {DayBar(10200, 9800, c) : c \in {9850, 10000, 10150, 10151}}] : n \in 3..4}
PivotFrames ==
    {Frame(OHLCV, Dated(bars)) : bars \in DailySeries}
    \cup {Frame(OHLCV \ {c}, Dated([k \in 1..4 |-> DayA])) : c \in {"High", "Low", "Close"}}

CallInit(frames) ==
    /\ args \in frames
    /\ ret = << >>
    /\ pc = "start"
    /\ BasesIdle
    /\ ScanIdle

InitPivot == CallInit(PivotFrames)

PivotForming ==
    /\ pc = "start"
    /\ ret' = <<pivot_forming(args)>>
    /\ pc' = "called"
    /\ UNCHANGED <<args, baseVars, scanVars>>

NextPivot == PivotForming

SpecPivot == InitPivot /\ [][NextPivot]_vars

---------------------------------------------------------------------------
\* Properties of pivot_forming (specification SpecPivot)

\* The trailing L bars have a positive maximum High and a range strictly
\* below 8 % of it.
Qualifies(rows, L) ==
    LET from == Len(rows) - L + 1
        hi == MaxOf({rows[k].High : k \in from..Len(rows)})
        lo == MinOf({rows[k].Low : k \in from..Len(rows)})
    IN  hi > 0 /\ 25 * (hi - lo) < 2 * hi
WindowLengths(rows) == {L \in 3..10 : L <= Len(rows) /\ Qualifies(rows, L)}

\* C11: pivot_forming returns forming with days the largest L in
\* [3, min(10, n)] whose trailing window has a range strictly below 8 %, and
\* the all-null result when n < 3 or no length qualifies.
C11_LongestWindow ==
    (pc = "called" /\ OHLCV \subseteq args.columns) =>
      IF WindowLengths(args.rows) = {}
      THEN ret[1] = NotForming
      ELSE ret[1].forming /\ ret[1].days = MaxOf(WindowLengths(args.rows))

\* A series of more than 10 bars where several lengths qualify, the longest
\* being shorter than 10 because the window one longer has a range of
\* exactly 8 %.
C11_Witness ==
    /\ pc = "called" /\ Len(args.rows) > 10
    /\ Cardinality(WindowLengths(args.rows)) >= 2
    /\ ret[1].days < 10
    /\ LET from == Len(args.rows) - ret[1].days
       IN  args.rows[from].Low = DayB.Low /\ \A k \in (from + 1)..Len(args.rows) : args.rows[k].High = 10000

---------------------------------------------------------------------------
\* Specification of one call of pivot_in_base on a pivot and a list of
\* bases.

\* Longest list of bases.
MaxBases == 3

LinkBases ==
    {b \in {[base_type |-> "Darvas box", start_date |-> WeekDate(i), end_date |-> WeekDate(j)] : i \in 1..3, j \in 2..4} :
        b.start_date < b.end_date}
LinkPivots ==
    {NotForming}
    \cup {[forming |-> TRUE, days |-> 5, range_pct |-> 500, tight_closes |-> FALSE,
           pivot_start_date |-> d[1], pivot_end_date |-> d[2], pivot_high |-> 10000] :
            d \in {<<1, 5>>, <<10, 14>>, <<12, 22>>, <<15, 21>>, <<22, 26>>, <<29, 33>>}}

InitLink ==
    /\ pivot \in LinkPivots
    /\ bases \in UNION {[1..n -> LinkBases] : n \in 0..MaxBases}
    /\ weekly = << >> /\ daily = [len |-> 0, uptrend |-> {}, volume_at_pivot |-> NoType]
    /\ row = DefaultRow("", "")
    /\ CallIdle
    /\ ScanIdle
    /\ pc = "start"

PivotInBase ==
    /\ pc = "start"
    /\ ret' = <<pivot_in_base(pivot, bases)>>
    /\ pc' = "called"
    /\ UNCHANGED <<args, baseVars, scanVars>>

NextLink == PivotInBase

SpecLink == InitLink /\ [][NextLink]_vars

---------------------------------------------------------------------------
\* Properties of pivot_in_base (specification SpecLink)

Overlaps(b) == b.start_date <= pivot.pivot_end_date /\ pivot.pivot_start_date <= b.end_date
HoldsPivotEnd(b) == b.start_date <= pivot.pivot_end_date /\ pivot.pivot_end_date <= b.end_date

\* C12: pivot_in_base returns null iff the pivot is not forming or no base
\* overlaps the pivot window; otherwise it returns an overlapping base, one
\* that contains pivot_end_date if any overlapping base does.
C12_PivotInBase ==
    pc = "called" =>
      /\ ret[1] = NoBase <=> (~pivot.forming \/ ~\E b \in Range(bases) : Overlaps(b))
      /\ ret[1] # NoBase =>
           /\ ret[1] \in Range(bases)
           /\ Overlaps(ret[1])
           /\ (\E b \in Range(bases) : Overlaps(b) /\ HoldsPivotEnd(b)) => HoldsPivotEnd(ret[1])

\* The first overlapping base of the list ends before the pivot does and a
\* later one contains the pivot's end: the later one is returned.
C12_Witness ==
    /\ pc = "called" /\ pivot.forming /\ Len(bases) >= 2
    /\ Overlaps(bases[1]) /\ ~HoldsPivotEnd(bases[1])
    /\ HoldsPivotEnd(ret[1])

---------------------------------------------------------------------------
\* Properties of insufficient history (specification SpecBases)

\* C13: with fewer than 252 daily bars, none included, or fewer than 4
\* weekly bars find_bases returns the empty list, and the scan row of a
\* symbol with fewer than 252 daily bars (which every symbol with fewer than
\* 4 weekly bars is) is the default row with quality_score 0 and buyable
\* false, whatever pivot its last daily bars form.
C13_InsufficientHistory ==
    /\ (Returned /\ (daily.len < 252 \/ Len(weekly) < 4)) => bases = << >>
    /\ (pc = "scanned" /\ daily.len < 252) =>
         /\ ~row.pivot_forming /\ ~row.in_base /\ ~row.buyable /\ ~row.tight_closes
         /\ row.quality_score = 0
         /\ row.base_type = NoType /\ row.volume_at_pivot = NoType
         /\ \A v \in {row.pivot_days, row.pivot_range_pct, row.pivot_high, row.resistance, row.distance_pct, row.buy_point_date} : v = None

\* A scanned symbol one daily bar short of 252 whose last bars form a
\* pivot and whose weekly series, with enough history, has a base: no base
\* and the default row.
C13_Witness ==
    /\ pc = "scanned"
    /\ daily.len = MIN_DAILY_BARS - 1 /\ pivot.forming /\ Len(weekly) >= 4
    /\ BaseRecords(weekly, daily, pivot) # << >>
    /\ bases = << >> /\ ~row.pivot_forming

---------------------------------------------------------------------------
\* sepa.uptrend_at_date on a daily frame with SMA columns.

UPTREND_SLOPE_DAYS == 21
SMA_RISING_LOOKBACK == 5
SMA_NAMES == <<"SMA_50", "SMA_150", "SMA_200">>

\* row.get(name): None for a column the frame does not have.
RowGet(df, k, name) == IF name \in df.columns THEN df.rows[k][name] ELSE None
\* Position (1-based) of the last row dated at or before date, 0 if none.
PosAtOrBefore(df, date) ==
    LET idx == {k \in 1..Len(df.rows) : df.rows[k].date <= date}
    IN  IF idx = {} THEN 0 ELSE MaxOf(idx)

\* uptrend_at_date without the comparison with SMA_RISING_LOOKBACK bars ago.
uptrend_at_date_NoRising(df_daily, date) ==
    LET p == PosAtOrBefore(df_daily, date)
        sma50 == RowGet(df_daily, p, "SMA_50")
        sma150 == RowGet(df_daily, p, "SMA_150")
        sma200 == RowGet(df_daily, p, "SMA_200")
    IN  IF Len(df_daily.rows) = 0 \/ "SMA_200" \notin df_daily.columns THEN FALSE
        ELSE IF p = 0 THEN FALSE
        ELSE IF sma50 = None \/ sma150 = None \/ sma200 = None THEN FALSE
        ELSE IF ~(sma50 > sma150 /\ sma150 > sma200) THEN FALSE
        ELSE IF p - 1 < UPTREND_SLOPE_DAYS THEN FALSE
        ELSE IF df_daily.rows[p - UPTREND_SLOPE_DAYS].SMA_200 = None \/ sma200 <= df_daily.rows[p - UPTREND_SLOPE_DAYS].SMA_200 THEN FALSE
        ELSE TRUE

\* sepa.uptrend_at_date; pos of the code is p - 1.
uptrend_at_date(df_daily, date) ==
    LET p == PosAtOrBefore(df_daily, date)
        sma50 == RowGet(df_daily, p, "SMA_50")
        sma150 == RowGet(df_daily, p, "SMA_150")
        sma200 == RowGet(df_daily, p, "SMA_200")
        falls(name) ==
            \/ df_daily.rows[p - SMA_RISING_LOOKBACK][name] = None
            \/ df_daily.rows[p][name] <= df_daily.rows[p - SMA_RISING_LOOKBACK][name]
    IN  IF Len(df_daily.rows) = 0 \/ "SMA_200" \notin df_daily.columns THEN FALSE
        ELSE IF p = 0 THEN FALSE
        ELSE IF sma50 = None \/ sma150 = None \/ sma200 = None THEN FALSE
        ELSE IF ~(sma50 > sma150 /\ sma150 > sma200) THEN FALSE
        ELSE IF p - 1 < UPTREND_SLOPE_DAYS THEN FALSE
        ELSE IF df_daily.rows[p - UPTREND_SLOPE_DAYS].SMA_200 = None \/ sma200 <= df_daily.rows[p - UPTREND_SLOPE_DAYS].SMA_200 THEN FALSE
        ELSE IF p - 1 < SMA_RISING_LOOKBACK THEN TRUE
        ELSE IF \E i \in 1..3 : falls(SMA_NAMES[i]) THEN FALSE
        ELSE TRUE

---------------------------------------------------------------------------
\* sepa.compute_smas. The result of a call is the pair of the caller's frame
\* after the call and the returned frame.

\* A raised KeyError (a column the frame does not have).
KeyError == [raised |-> "KeyError"]
SmaName(w) == "SMA_" \o ToString(w)

\* Series.rolling(window, min_periods).mean(): the mean, as an exact
\* quotient, of the defined values among the last `window` ones up to i,
\* undefined (NoQuot) with fewer than min_periods of them.
RollingMean(values, window, min_periods) ==
    [i \in 1..Len(values) |->
        LET obs == {k \in MaxOf({1, i - window + 1})..i : values[k] # None}
        IN  IF Cardinality(obs) < min_periods THEN NoQuot ELSE <<SumOver(values, obs), Cardinality(obs)>>]

\* compute_smas with min_periods=1 in place of min_periods=w.
compute_smas_MinPeriods1(df, windows, close_col) ==
    IF close_col \notin df.columns THEN [df |-> df, out |-> KeyError]
    ELSE LET names == {SmaName(windows[j]) : j \in 1..Len(windows)}
             W(nm) == windows[CHOOSE j \in 1..Len(windows) : SmaName(windows[j]) = nm]
             closes == [k \in 1..Len(df.rows) |-> df.rows[k][close_col]]
             sma == [nm \in names |-> RollingMean(closes, W(nm), 1)]
             out == Frame(df.columns \cup names, [k \in 1..Len(df.rows) |-> [nm \in names |-> sma[nm][k]] @@ df.rows[k]])
         IN  [df |-> df, out |-> out]

compute_smas(df, windows, close_col) ==
    IF close_col \notin df.columns THEN [df |-> df, out |-> KeyError]
    ELSE LET names == {SmaName(windows[j]) : j \in 1..Len(windows)}
             W(nm) == windows[CHOOSE j \in 1..Len(windows) : SmaName(windows[j]) = nm]
             closes == [k \in 1..Len(df.rows) |-> df.rows[k][close_col]]
             sma == [nm \in names |-> RollingMean(closes, W(nm), W(nm))]
             out == Frame(df.columns \cup names, [k \in 1..Len(df.rows) |-> [nm \in names |-> sma[nm][k]] @@ df.rows[k]])
         IN  [df |-> df, out |-> out]

---------------------------------------------------------------------------
\* sepa.to_weekly: resample("W-FRI") of a daily frame.

\* Label of the W-FRI bin of a date: the Friday on or after it.
WeekLabel(d) == 7 * ((d + 6) \div 7)
\* GroupBy first/last/max/min/sum over the rows S of one bin: undefined
\* values are skipped, an empty bin gives None except for sum, which gives 0.
BinAgg(rows, S, col, how) ==
    LET valid == {k \in S : rows[k][col] # None}
        vals == {rows[k][col] : k \in valid}
    IN  IF how = "sum" THEN SumOver([k \in 1..Len(rows) |-> rows[k][col]], valid)
        ELSE IF valid = {} THEN None
        ELSE CASE how = "first" -> rows[MinOf(valid)][col]
               [] how = "last" -> rows[MaxOf(valid)][col]
               [] how = "max" -> MaxOf(vals)
               [] how = "min" -> MinOf(vals)

to_weekly(df_daily) ==
    IF Len(df_daily.rows) = 0 \/ df_daily.columns = {} THEN EmptyFrame
    ELSE IF ~({"Open", "High", "Low", "Close"} \subseteq df_daily.columns) THEN KeyError
    ELSE LET rows == df_daily.rows
             first == WeekLabel(rows[1].date)
             last == WeekLabel(rows[Len(rows)].date)
             Bin(label) == {k \in 1..Len(rows) : WeekLabel(rows[k].date) = label}
             ohlc(label) ==
                 [date |-> label,
                  Open |-> BinAgg(rows, Bin(label), "Open", "first"),
                  High |-> BinAgg(rows, Bin(label), "High", "max"),
                  Low |-> BinAgg(rows, Bin(label), "Low", "min"),
                  Close |-> BinAgg(rows, Bin(label), "Close", "last")]
             bar(label) ==
                 IF "Volume" \in df_daily.columns
                 THEN [Volume |-> BinAgg(rows, Bin(label), "Volume", "sum")] @@ ohlc(label)
                 ELSE ohlc(label)
             bars == [i \in 1..((last - first) \div 7 + 1) |-> bar(first + 7 * (i - 1))]
             NotAllNa(r) == \E c \in DOMAIN r \ {"date"} : r[c] # None
         IN  Frame(IF "Volume" \in df_daily.columns THEN OHLCV ELSE OHLCV \ {"Volume"}, SelectSeq(bars, NotAllNa))

---------------------------------------------------------------------------
\* Functions of the other layers that take a daily frame.  DataFrame.empty
\* holds for a frame without rows or without columns.

PIVOT_VOLUME_LOOKBACK_DAYS == 50
ADV_WINDOW_20 == 20
ADV_WINDOW_50 == 50
TRADING_DAYS_52W == 252

\* sepa.pivot_volume_vs_average
pivot_volume_vs_average(df_daily, pv, lookback_days) ==
    LET n == Len(df_daily.rows)
        L == pv.days
        t == MinOf({n, MaxOf({lookback_days, L})})
        avg_lookback == MeanOf(df_daily.rows, (n - t + 1)..n, "Volume")
        pivot_avg == MeanOf(df_daily.rows, (n - L + 1)..n, "Volume")
    IN  IF ~pv.forming \/ n = 0 \/ df_daily.columns = {} \/ "Volume" \notin df_daily.columns THEN NoType
        ELSE IF L = None \/ L < 1 THEN NoType
        ELSE IF t < L THEN NoType
        ELSE IF avg_lookback = NoQuot \/ avg_lookback[1] <= 0 THEN NoType
        ELSE IF pivot_avg = NoQuot THEN NoType
        ELSE IF pivot_avg[1] * avg_lookback[2] < avg_lookback[1] * pivot_avg[2] THEN "below" ELSE "above"

\* liquidity.adv: NoQuot stands for None.
adv(df_daily, window_days) ==
    LET n == Len(df_daily.rows)
        tail == (n - window_days + 1)..n
        mean_vol == MeanOf(df_daily.rows, tail, "Volume")
    IN  IF n = 0 \/ df_daily.columns = {} \/ "Volume" \notin df_daily.columns \/ n < window_days THEN NoQuot
        ELSE IF (\A k \in tail : df_daily.rows[k].Volume = None) \/ (\A k \in tail : df_daily.rows[k].Volume # None /\ df_daily.rows[k].Volume <= 0) THEN NoQuot
        ELSE IF mean_vol # NoQuot /\ mean_vol[1] > 0 THEN mean_vol ELSE NoQuot

\* liquidity.liquidity_metrics with its default flags (both ADVs, dollar
\* ADVs included).
liquidity_metrics(df_daily) ==
    LET out == [adv_20 |-> NoQuot, adv_50 |-> NoQuot, latest_close |-> None, dollar_adv_20 |-> NoQuot, dollar_adv_50 |-> NoQuot]
        latest_close == df_daily.rows[Len(df_daily.rows)].Close
        a20 == adv(df_daily, ADV_WINDOW_20)
        a50 == adv(df_daily, ADV_WINDOW_50)
        dollar(a) == IF a = NoQuot \/ latest_close = None THEN NoQuot ELSE <<a[1] * latest_close, a[2]>>
    IN  IF Len(df_daily.rows) = 0 \/ df_daily.columns = {} \/ "Close" \notin df_daily.columns THEN out
        ELSE [adv_20 |-> a20, adv_50 |-> a50, latest_close |-> latest_close, dollar_adv_20 |-> dollar(a20), dollar_adv_50 |-> dollar(a50)]

\* liquidity.days_to_liquidate: position_shares / adv as a quotient, NoQuot
\* (None) when adv is None or not positive or the position is negative.
days_to_liquidate(position_shares, adv_val) ==
    IF adv_val = NoQuot \/ adv_val[1] <= 0 \/ position_shares[1] < 0 THEN NoQuot
    ELSE <<position_shares[1] * adv_val[2], position_shares[2] * adv_val[1]>>

NoPurchase == [max_shares |-> NoQuot, max_dollar |-> NoQuot, adv |-> NoQuot, days_to_exit_at_max |-> None, latest_close |-> None]

max_purchase_by_liquidity_KeepsClose(df_daily, max_days_to_exit, pct_adv_per_day, adv_window) ==
    LET adv_val == adv(df_daily, adv_window)
        latest_close == df_daily.rows[Len(df_daily.rows)].Close
        max_shares == <<max_days_to_exit * pct_adv_per_day[1] * adv_val[1], pct_adv_per_day[2] * adv_val[2]>>
    IN  IF Len(df_daily.rows) = 0 \/ df_daily.columns = {} \/ "Close" \notin df_daily.columns THEN NoPurchase
        ELSE IF adv_val = NoQuot \/ adv_val[1] <= 0 THEN [NoPurchase EXCEPT !.latest_close = latest_close]
        ELSE [max_shares |-> max_shares, max_dollar |-> <<max_shares[1] * latest_close, max_shares[2]>>, adv |-> adv_val,
              days_to_exit_at_max |-> max_days_to_exit, latest_close |-> latest_close]

\* liquidity.max_purchase_by_liquidity: pct_adv_per_day is a quotient, the
\* share and dollar limits are quotients (dollars in mills).
max_purchase_by_liquidity(df_daily, max_days_to_exit, pct_adv_per_day, adv_window) ==
    LET adv_val == adv(df_daily, adv_window)
        latest_close == df_daily.rows[Len(df_daily.rows)].Close
        max_shares == <<max_days_to_exit * pct_adv_per_day[1] * adv_val[1], pct_adv_per_day[2] * adv_val[2]>>
    IN  IF adv_val = NoQuot \/ adv_val[1] <= 0 THEN NoPurchase
        ELSE IF Len(df_daily.rows) = 0 \/ df_daily.columns = {} \/ "Close" \notin df_daily.columns THEN NoPurchase
        ELSE [max_shares |-> max_shares, max_dollar |-> <<max_shares[1] * latest_close, max_shares[2]>>, adv |-> adv_val,
              days_to_exit_at_max |-> max_days_to_exit, latest_close |-> latest_close]

\* leadership.add_52w_high_low: rolling(252, min_periods=1) max and min.
add_52w_high_low(df_daily) ==
    IF "High" \notin df_daily.columns \/ "Low" \notin df_daily.columns THEN KeyError
    ELSE LET rows == df_daily.rows
             window(i) == MaxOf({1, i - TRADING_DAYS_52W + 1})..i
             highs(i) == {rows[k].High : k \in {k \in window(i) : rows[k].High # None}}
             lows(i) == {rows[k].Low : k \in {k \in window(i) : rows[k].Low # None}}
         IN  Frame(df_daily.columns \cup {"High_52w", "Low_52w"},
                   [i \in 1..Len(rows) |->
                       [High_52w |-> IF highs(i) = {} THEN None ELSE MaxOf(highs(i)),
                        Low_52w |-> IF lows(i) = {} THEN None ELSE MinOf(lows(i))] @@ rows[i]])

\* leadership.trend_template with _trend_template_at_row: the score and
\* the pass flags of the 8 criteria; rs_ratio in hundredths; at_date None
\* for the latest row.
trend_template(df_daily, rs_ratio, at_date) ==
    LET n == Len(df_daily.rows)
        pos == IF at_date = None THEN n ELSE PosAtOrBefore(df_daily, at_date)
        close == df_daily.rows[pos].Close
        sma50 == RowGet(df_daily, pos, "SMA_50")
        sma150 == RowGet(df_daily, pos, "SMA_150")
        sma200 == RowGet(df_daily, pos, "SMA_200")
        high_52w == RowGet(df_daily, pos, "High_52w")
        low_52w == RowGet(df_daily, pos, "Low_52w")
        above(a, b) == a # None /\ b # None /\ a > b
        sma200_ago == df_daily.rows[pos - UPTREND_SLOPE_DAYS].SMA_200
        details ==
            << above(close, sma150) /\ above(close, sma200),
               above(sma150, sma200),
               pos - 1 >= UPTREND_SLOPE_DAYS /\ sma200 # None /\ above(sma200, sma200_ago),
               above(sma50, sma150) /\ above(sma50, sma200),
               above(close, sma50),
               low_52w # None /\ low_52w > 0 /\ close # None /\ 4 * close >= 5 * low_52w,
               high_52w # None /\ high_52w > 0 /\ close # None /\ 4 * close >= 3 * high_52w,
               rs_ratio # None /\ rs_ratio >= 100 >>
    IN  IF n = 0 \/ df_daily.columns = {} THEN [score |-> 0, details |-> << >>]
        ELSE IF pos = 0 THEN [score |-> 0, details |-> << >>]
        ELSE IF "Close" \notin df_daily.columns THEN KeyError
        ELSE [score |-> Cardinality({i \in 1..8 : details[i]}), details |-> details]

\* sepa.find_bases on frames: the tests of lines 507-511, the columns
\* ta.atr reads from the copy of the daily frame (513-520), then the base
\* detection with uptrend_at_date evaluated on the daily frame.  The weekly
\* frame holds the columns to_weekly produces.  The values of the ATR column
\* are left out at this level (atr is empty).
find_bases_frames(df_weekly, df_daily, pv) ==
    IF Len(df_weekly.rows) = 0 \/ df_weekly.columns = {} \/ Len(df_weekly.rows) < 4 THEN [bases |-> << >>]
    ELSE IF Len(df_daily.rows) < MIN_DAILY_BARS THEN [bases |-> << >>]
    ELSE IF ~({"High", "Low", "Close"} \subseteq df_daily.columns) THEN KeyError
    ELSE [bases |-> find_bases(df_weekly.rows,
                               [len |-> Len(df_daily.rows), atr |-> << >>,
                                uptrend |-> {k \in 1..Len(df_weekly.rows) : uptrend_at_date(df_daily, WeekDate(k))},
                                volume_at_pivot |-> pivot_volume_vs_average(df_daily, pv, PIVOT_VOLUME_LOOKBACK_DAYS)],
                               pv)]

---------------------------------------------------------------------------
\* Specification of one call of a function of the daily layer: args.fn
\* names the function, the other fields of args are its arguments.

\* Longest frame handed to uptrend_at_date.
MaxSmaRows == 27

\* Frames with SMA columns: the SMAs at the last row, 5 rows before it and
\* 21 rows before it vary, the other rows carry fixed values.
UptrendArgs ==
    LET Smas(a, b, c) == [SMA_50 |-> a, SMA_150 |-> b, SMA_200 |-> c]
        SmaNow == {Smas(130, 120, 110), Smas(120, 120, 110), Smas(130, 105, 110), Smas(130, 120, None), Smas(None, 120, 110)}
        SmaAgo5 == {Smas(125, 115, 105), Smas(130, 115, 105), Smas(125, 120, 105), Smas(125, 115, 110), Smas(125, None, 105)}
        SmaAgo21 == {Smas(None, None, 100), Smas(None, None, 110), Smas(None, None, None), Smas(None, None, 115)}
        SmaRows(n, now, ago5, ago21) ==
            [k \in 1..n |-> [date |-> DayDate(k), Close |-> 100]
                            @@ (IF k = n THEN now ELSE IF k = n - SMA_RISING_LOOKBACK THEN ago5
                                ELSE IF k = n - UPTREND_SLOPE_DAYS THEN ago21 ELSE Smas(90, 80, 70))]
        SmaColumns == {{"Close", "SMA_50", "SMA_150", "SMA_200"}, {"Close", "SMA_50", "SMA_150"}, {"Close", "SMA_150", "SMA_200"}, {"Close"}}
    IN  {[fn |-> "uptrend_at_date", df |-> Frame(cols, SmaRows(n, now, ago5, ago21)), date |-> d] :
            cols \in SmaColumns, n \in {0, 1, 6, 21, 22, MaxSmaRows},
            now \in SmaNow, ago5 \in SmaAgo5, ago21 \in SmaAgo21,
            d \in {0, DayDate(1), DayDate(20) + 1, DayDate(MaxSmaRows - 1), DayDate(MaxSmaRows), DayDate(MaxSmaRows) + 2}}

\* Longest close series handed to compute_smas with short windows.
MaxCloses == 5

RECURSIVE SeqsUpTo(_, _)
SeqsUpTo(S, n) == IF n = 0 THEN {<< >>} ELSE LET shorter == SeqsUpTo(S, n - 1) IN shorter \cup {Append(q, x) : q \in {r \in shorter : Len(r) = n - 1}, x \in S}
\* Close series with rising, equal and undefined values under short
\* windows, and a 60-bar series under the default windows.
SmaArgs ==
    LET CloseRows(closes) == [k \in 1..Len(closes) |-> [date |-> DayDate(k), Close |-> closes[k], Volume |-> 1000]]
        long == [k \in 1..60 |-> 100 + (k % 7)]
    IN  {[fn |-> "compute_smas", df |-> Frame(cols, CloseRows(closes)), windows |-> ws] :
            cols \in {{"Close"}, {"Close", "Volume"}}, closes \in SeqsUpTo({100, 103, None}, MaxCloses),
            ws \in {<<2, 3>>, <<3>>, <<1, 4>>, <<50, 150, 200>>}}
        \cup {[fn |-> "compute_smas", df |-> Frame({"Close"}, CloseRows(long)), windows |-> <<50, 150, 200>>]}

\* Calendar weeks spanned by the daily frames handed to to_weekly.
MaxCalWeeks == 4

\* Daily frames whose weeks are complete, partial (holidays, first and
\* last week) or without bars; the prices of a bar depend on its date.
WeeklyArgs ==
    LET DayRow(d) == [date |-> d, Open |-> 1000 + 10 * (d % 4), High |-> 1050 + 10 * (d % 4) + 10 * (d % 3),
                      Low |-> 950 + 10 * (d % 4) - 10 * (d % 5), Close |-> 1020 + 10 * (d % 4) - 30 * (d % 2), Volume |-> 100 + d]
        WeekShapes == {{}, {0, 1, 2, 3, 4}, {4}, {0}, {1, 2, 3}}
        Dates(shapes) == {7 * w - 4 + o : w \in 1..Len(shapes), o \in 0..4} \cap {d \in 1..(7 * Len(shapes)) : (d + 4) % 7 \in shapes[(d + 6) \div 7]}
        Sorted(S) == [k \in 1..Cardinality(S) |-> CHOOSE d \in S : Cardinality({e \in S : e < d}) = k - 1]
        DayRows(shapes) == [k \in 1..Cardinality(Dates(shapes)) |-> DayRow(Sorted(Dates(shapes))[k])]
    IN  {[fn |-> "to_weekly", df |-> Frame(cols, DayRows(shapes))] :
            cols \in {OHLCV, OHLCV \ {"Volume"}}, shapes \in [1..MaxCalWeeks -> WeekShapes]}

\* Length of a daily frame too short for every layer.
FewBars == 3

\* Calls of every layer on frames with too few rows or without one of the
\* OHLCV columns (or without any): tight bars, so that a pivot forms on the
\* frame with all columns.
LayerArgs ==
    LET LayerRows(n) == [k \in 1..n |-> [date |-> DayDate(k), Open |-> 1000, High |-> 1010, Low |-> 990, Close |-> 1000, Volume |-> 500]]
        LayerColumns == {OHLCV, {}} \cup {OHLCV \ {c} : c \in OHLCV}
        Lens(f) == {0, FewBars, ADV_WINDOW_20} \cup (IF f \in {"find_bases", "uptrend_at_date", "add_52w_high_low", "trend_template"} THEN {MIN_DAILY_BARS} ELSE {})
        LayerNames == {"to_weekly", "compute_smas", "uptrend_at_date", "pivot_forming", "pivot_volume_vs_average",
                       "find_bases", "add_52w_high_low", "trend_template", "adv", "liquidity_metrics"}
        WeeklyRows(w) == [k \in 1..w |-> LayerRows(5 * w)[5 * k]]
    IN  UNION {{[fn |-> f, df |-> Frame(cols, LayerRows(n)), windows |-> <<50, 150, 200>>, date |-> DayDate(n),
                 pivot |-> pivot_forming(Frame(OHLCV, LayerRows(n))), weekly |-> Frame(OHLCV, WeeklyRows(w)), rs_ratio |-> None] :
                   cols \in LayerColumns, n \in Lens(f), w \in (IF f = "find_bases" THEN {FewBars, FewBars + 1} ELSE {FewBars + 1})} :
               f \in LayerNames}

\* Longest Volume series given to max_purchase_by_liquidity.
MaxVolumes == 3

DEFAULT_MAX_DAYS_TO_EXIT == 5
DEFAULT_PCT_ADV_PER_DAY == <<1, 4>>

\* Calls of max_purchase_by_liquidity on short series whose volumes are
\* missing, zero or positive, with and without the Volume and Close columns,
\* for windows shorter than, equal to and longer than the series; calls of
\* days_to_liquidate on null, non-positive and positive ADVs.
LiquidityArgs ==
    LET VolumeRows(vs) == [k \in 1..Len(vs) |-> [date |-> DayDate(k), Open |-> 1000, High |-> 1010 + 10 * k, Low |-> 990,
                                                   Close |-> 1000 + 10 * k, Volume |-> vs[k]]]
    IN  {[fn |-> "max_purchase_by_liquidity", df |-> Frame(cols, VolumeRows(vs)), max_days_to_exit |-> d,
          pct_adv_per_day |-> pct, adv_window |-> win] :
            cols \in {OHLCV, OHLCV \ {"Volume"}, OHLCV \ {"Close"}}, vs \in SeqsUpTo({None, 0, 500, 1000}, MaxVolumes),
            d \in {1, DEFAULT_MAX_DAYS_TO_EXIT}, pct \in {<<0, 1>>, DEFAULT_PCT_ADV_PER_DAY, <<1, 10>>}, win \in {2, MaxVolumes}}
        \cup {[fn |-> "days_to_liquidate", position_shares |-> p, adv |-> a] :
                p \in {<<0 - 1, 1>>, <<0, 1>>, <<1000, 1>>, <<2500, 2>>},
                a \in {NoQuot, <<0, 1>>, <<0 - 500, 1>>, <<500, 1>>, <<1500, 2>>}}

\* Calls of _pivot_highs_lows on weekly series of up to MaxWeeks bars with
\* equal and different Highs and Lows.
PivotArgs ==
    {[fn |-> "_pivot_highs_lows", weekly |-> w] :
        w \in SeqsUpTo({Bar(29, 30, 10, 11, 1), Bar(29, 30, 20, 21, 1), Bar(19, 20, 10, 11, 1), Bar(39, 40, 20, 21, 1)}, MaxWeeks)}

InitDaily == CallInit(UptrendArgs \cup SmaArgs \cup WeeklyArgs \cup LayerArgs \cup LiquidityArgs \cup PivotArgs)

UptrendAtDate ==
    /\ pc = "start" /\ args.fn = "uptrend_at_date"
    /\ ret' = <<uptrend_at_date(args.df, args.date)>>
    /\ pc' = "called"
    /\ UNCHANGED <<args, baseVars, scanVars>>

\* A call that raises ends in "raised" without a result.
ComputeSmas ==
    /\ pc = "start" /\ args.fn = "compute_smas"
    /\ LET call == compute_smas(args.df, args.windows, "Close")
       IN  /\ args' = [args EXCEPT !.df = call.df]
           /\ ret' = IF call.out = KeyError THEN << >> ELSE <<call.out>>
           /\ pc' = IF call.out = KeyError THEN "raised" ELSE "called"
    /\ UNCHANGED <<baseVars, scanVars>>

ToWeekly ==
    /\ pc = "start" /\ args.fn = "to_weekly"
    /\ ret' = IF to_weekly(args.df) = KeyError THEN << >> ELSE <<to_weekly(args.df)>>
    /\ pc' = IF to_weekly(args.df) = KeyError THEN "raised" ELSE "called"
    /\ UNCHANGED <<args, baseVars, scanVars>>

PivotFormingLayer ==
    /\ pc = "start" /\ args.fn = "pivot_forming"
    /\ ret' = <<pivot_forming(args.df)>>
    /\ pc' = "called"
    /\ UNCHANGED <<args, baseVars, scanVars>>

PivotVolume ==
    /\ pc = "start" /\ args.fn = "pivot_volume_vs_average"
    /\ ret' = <<pivot_volume_vs_average(args.df, args.pivot, PIVOT_VOLUME_LOOKBACK_DAYS)>>
    /\ pc' = "called"
    /\ UNCHANGED <<args, baseVars, scanVars>>

FindBasesFrames ==
    /\ pc = "start" /\ args.fn = "find_bases"
    /\ LET found == find_bases_frames(args.weekly, args.df, args.pivot)
       IN  /\ ret' = IF found = KeyError THEN << >> ELSE <<found.bases>>
           /\ pc' = IF found = KeyError THEN "raised" ELSE "called"
    /\ UNCHANGED <<args, baseVars, scanVars>>

Add52wHighLow ==
    /\ pc = "start" /\ args.fn = "add_52w_high_low"
    /\ LET out == add_52w_high_low(args.df)
       IN  /\ ret' = IF out = KeyError THEN << >> ELSE <<out>>
           /\ pc' = IF out = KeyError THEN "raised" ELSE "called"
    /\ UNCHANGED <<args, baseVars, scanVars>>

TrendTemplate ==
    /\ pc = "start" /\ args.fn = "trend_template"
    /\ LET tt == trend_template(args.df, args.rs_ratio, None)
       IN  /\ ret' = IF tt = KeyError THEN << >> ELSE <<tt>>
           /\ pc' = IF tt = KeyError THEN "raised" ELSE "called"
    /\ UNCHANGED <<args, baseVars, scanVars>>

Adv ==
    /\ pc = "start" /\ args.fn = "adv"
    /\ ret' = <<adv(args.df, ADV_WINDOW_20)>>
    /\ pc' = "called"
    /\ UNCHANGED <<args, baseVars, scanVars>>

LiquidityMetrics ==
    /\ pc = "start" /\ args.fn = "liquidity_metrics"
    /\ ret' = <<liquidity_metrics(args.df)>>
    /\ pc' = "called"
    /\ UNCHANGED <<args, baseVars, scanVars>>

MaxPurchaseByLiquidity ==
    /\ pc = "start" /\ args.fn = "max_purchase_by_liquidity"
    /\ ret' = <<max_purchase_by_liquidity(args.df, args.max_days_to_exit, args.pct_adv_per_day, args.adv_window)>>
    /\ pc' = "called"
    /\ UNCHANGED <<args, baseVars, scanVars>>

DaysToLiquidate ==
    /\ pc = "start" /\ args.fn = "days_to_liquidate"
    /\ ret' = <<days_to_liquidate(args.position_shares, args.adv)>>
    /\ pc' = "called"
    /\ UNCHANGED <<args, baseVars, scanVars>>

PivotHighsLows ==
    /\ pc = "start" /\ args.fn = "_pivot_highs_lows"
    /\ ret' = <<_pivot_highs_lows(args.weekly)>>
    /\ pc' = "called"
    /\ UNCHANGED <<args, baseVars, scanVars>>

NextDaily ==
    \/ UptrendAtDate \/ ComputeSmas \/ ToWeekly
    \/ PivotFormingLayer \/ PivotVolume \/ FindBasesFrames
    \/ Add52wHighLow \/ TrendTemplate \/ Adv \/ LiquidityMetrics
    \/ MaxPurchaseByLiquidity \/ DaysToLiquidate \/ PivotHighsLows

SpecDaily == InitDaily /\ [][NextDaily]_vars

---------------------------------------------------------------------------
\* Properties of uptrend_at_date (specification SpecDaily)

\* The evaluation bar and the value of an SMA at a position, None when the
\* column or the position does not exist or the value is undefined.
EvalBar == PosAtOrBefore(args.df, args.date)
SmaAt(name, k) == IF name \in args.df.columns /\ k >= 1 /\ k <= Len(args.df.rows) THEN args.df.rows[k][name] ELSE None
Higher(name, k, back) == SmaAt(name, k) # None /\ SmaAt(name, k - back) # None /\ SmaAt(name, k) > SmaAt(name, k - back)

\* C14: uptrend_at_date is true iff at the last bar on or before the date
\* the three SMAs are defined and strictly ordered 50 > 150 > 200, SMA_200
\* is strictly higher than 21 bars earlier, and each SMA is strictly higher
\* than 5 bars earlier (skipped with fewer than 5 prior bars).
C14_Uptrend ==
    (pc = "called" /\ args.fn = "uptrend_at_date") =>
      (ret[1] <=>
        /\ EvalBar >= 1
        /\ \A i \in 1..3 : SmaAt(SMA_NAMES[i], EvalBar) # None
        /\ SmaAt("SMA_50", EvalBar) > SmaAt("SMA_150", EvalBar)
        /\ SmaAt("SMA_150", EvalBar) > SmaAt("SMA_200", EvalBar)
        /\ Higher("SMA_200", EvalBar, 21)
        /\ (EvalBar - 1 >= 5 => \A i \in 1..3 : Higher(SMA_NAMES[i], EvalBar, 5)))

\* A call that returns true for a date after the last bar of a frame of
\* MaxSmaRows bars, so that every comparison of the function was made.
C14_Witness ==
    /\ pc = "called" /\ args.fn = "uptrend_at_date" /\ ret[1]
    /\ args.date > args.df.rows[Len(args.df.rows)].date
    /\ EvalBar = MaxSmaRows

---------------------------------------------------------------------------
\* Properties of compute_smas (specification SpecDaily)

\* The closes of the window [i-w+1, i] of the frame handed to compute_smas.
WindowOf(i, w) == (i - w + 1)..i
CloseAt(k) == args.df.rows[k].Close

\* C15: a call of compute_smas leaves the input frame as it was and returns
\* a frame of the same length in which, for every window w and position i,
\* SMA_w is undefined before the w-th bar and is the arithmetic mean of
\* Close over the w bars ending at i from then on (undefined when a close
\* of the window is).
C15_ComputeSmas ==
    [][(pc = "start" /\ args.fn = "compute_smas" /\ pc' = "called") =>
         /\ args' = args
         /\ Len(ret'[1].rows) = Len(args.df.rows)
         /\ ret'[1].columns = args.df.columns \cup {SmaName(args.windows[j]) : j \in 1..Len(args.windows)}
         /\ \A i \in 1..Len(args.df.rows) :
              /\ \A c \in args.df.columns \cup {"date"} : ret'[1].rows[i][c] = args.df.rows[i][c]
              /\ \A j \in 1..Len(args.windows) :
                   LET w == args.windows[j]
                       sma == ret'[1].rows[i][SmaName(w)]
                   IN  IF i < w \/ \E k \in WindowOf(i, w) : CloseAt(k) = None
                       THEN sma = NoQuot
                       ELSE sma # NoQuot /\ sma[1] * w = SumOver([k \in 1..i |-> CloseAt(k)], WindowOf(i, w)) * sma[2]]_vars

\* A returned frame with two SMA columns of which one is still undefined
\* and the other defined at the last bar, the closes not all equal.
C15_Witness ==
    /\ pc = "called" /\ args.fn = "compute_smas" /\ args.windows = <<1, 4>>
    /\ Len(args.df.rows) = 3 /\ CloseAt(2) # None /\ CloseAt(3) # None /\ CloseAt(2) # CloseAt(3)
    /\ ret[1].rows[3].SMA_1 = <<CloseAt(3), 1>> /\ ret[1].rows[3].SMA_4 = NoQuot

---------------------------------------------------------------------------
\* Properties of to_weekly (specification SpecDaily)

ToWeeklyCalled == pc = "called" /\ args.fn = "to_weekly"
\* The daily bars of the Friday-ending week of a weekly bar.
DaysOfWeek(label) == {k \in 1..Len(args.df.rows) : WeekLabel(args.df.rows[k].date) = label}
CeilDiv(n, d) == (n + d - 1) \div d
\* Every weekly bar aggregates the daily bars of its week as stated.
WeeklyAggregates ==
    \A i \in 1..Len(ret[1].rows) :
        LET bar == ret[1].rows[i]
            S == DaysOfWeek(bar.date)
            day(k) == args.df.rows[k]
        IN  /\ S # {}
            /\ bar.Open = day(MinOf(S)).Open
            /\ bar.High = MaxOf({day(k).High : k \in S})
            /\ bar.Low = MinOf({day(k).Low : k \in S})
            /\ bar.Close = day(MaxOf(S)).Close
            /\ "Volume" \in args.df.columns => bar.Volume = SumOver([k \in 1..Len(args.df.rows) |-> day(k).Volume], S)
WeeklyCountBound == Len(ret[1].rows) <= CeilDiv(Len(args.df.rows), 5) + 1

\* C16: to_weekly yields weekly bars in strictly ascending date order, one
\* per Friday-ending calendar week of the daily series, each aggregating
\* the daily bars of its week (Open first, High max, Low min, Close last,
\* Volume sum), at most ceil(len(daily)/5) + 1 of them, and none for an
\* empty daily series.
C16_WeeklyAsStated ==
    ToWeeklyCalled =>
        /\ \A i \in 1..Len(ret[1].rows), j \in 1..Len(ret[1].rows) : i < j => ret[1].rows[i].date < ret[1].rows[j].date
        /\ \A k \in 1..Len(args.df.rows) : \E i \in 1..Len(ret[1].rows) : ret[1].rows[i].date = WeekLabel(args.df.rows[k].date)
        /\ WeeklyAggregates
        /\ WeeklyCountBound
        /\ Len(args.df.rows) = 0 => Len(ret[1].rows) = 0

---------------------------------------------------------------------------
\* Properties of the intervals of the returned bases (specification SpecBases)

\* The sources of the candidates find_bases generated for the interval of b.
SourcesOf(b) ==
    LET cands == candidate_starts(weekly, _pivot_highs_lows(weekly).highs, pivot)
    IN  {cands[k].source : k \in {k \in 1..Len(cands) : cands[k].hi_idx = HiOf(b) /\ cands[k].end_idx = EndOf(b)}}

\* C17: every base returned by find_bases ends at or after its start and
\* its duration_weeks is end_idx - start_idx + 1 for the weekly indices of
\* its start_date and end_date, whichever source its candidate came from.
C17_BaseInterval ==
    Returned =>
        \A b \in BaseSet :
            /\ b.end_date >= b.start_date
            /\ \E s \in 1..Len(weekly), e \in 1..Len(weekly) :
                 /\ WeekDate(s) = b.start_date /\ WeekDate(e) = b.end_date
                 /\ b.duration_weeks = e - s + 1

\* Returned bases from a pivot-high anchored candidate, from the
\* trailing-high candidate and from the pivot-anchored candidate.
C17_Witness ==
    /\ Returned
    /\ \E b \in BaseSet : "pivot_high" \in SourcesOf(b) /\ b.duration_weeks >= 2
    /\ \E b \in BaseSet : "trailing_high" \in SourcesOf(b)
    /\ \E b \in BaseSet : "pivot_anchored" \in SourcesOf(b)

\* C18: every base returned by find_bases has resistance > 0.
C18_ResistancePositive == Returned => \A b \in BaseSet : b.resistance > 0

---------------------------------------------------------------------------
\* The scenario of two pivot lows in a 10-week interval (specification
\* SpecBases)

\* A returned base spanning 10 weeks under a prior high of 110.0 whose
\* first two pivot lows are 100.0 and 103.0, without handle.
TwoLowsScenario(b) ==
    /\ b.duration_weeks = 10 /\ b.prior_high = 110000
    /\ Len(LowsOf(b)) >= 2
    /\ weekly[LowsOf(b)[1]].Low = 100000 /\ weekly[LowsOf(b)[2]].Low = 103000
    /\ ~HasHandle(weekly, LowsOf(b), b.prior_high, b.base_low)
InLowerThird(b) == 3 * (weekly[EndOf(b)].Close - b.base_low) <= b.prior_high - b.base_low

---------------------------------------------------------------------------
\* Insufficient data in the layers (specification SpecDaily)

\* C20: insufficient data, a missing required column included, is handled
\* in every layer by returning an empty or neutral result: no call of
\* to_weekly, compute_smas, uptrend_at_date, pivot_forming,
\* pivot_volume_vs_average, find_bases, add_52w_high_low, trend_template,
\* adv or liquidity_metrics ends by raising an exception.
C20_NoLayerRaises == pc # "raised"

---------------------------------------------------------------------------
\* Properties of max_purchase_by_liquidity and days_to_liquidate
\* (specification SpecDaily)

MaxPurchaseCalled == pc = "called" /\ args.fn = "max_purchase_by_liquidity"
AdvDefined == adv(args.df, args.adv_window) # NoQuot
HasClose == "Close" \in args.df.columns
QuotEq(q, k) == q # NoQuot /\ q[2] # 0 /\ q[1] = k * q[2]
QuotTimes(q, r) == <<q[1] * r[1], q[2] * r[2]>>
QuotSame(q, r) == q # NoQuot /\ r # NoQuot /\ q[1] * r[2] = r[1] * q[2]
LatestClose == args.df.rows[Len(args.df.rows)].Close

\* The limits of a call with a defined ADV: max_shares = max_days_to_exit x
\* pct_adv_per_day x ADV, max_dollar = max_shares x latest Close,
\* days_to_exit_at_max = max_days_to_exit, and liquidating max_shares at
\* pct_adv_per_day x ADV a day takes max_days_to_exit days.
PurchaseLimits ==
    /\ QuotSame(ret[1].max_shares, QuotTimes(<<args.max_days_to_exit, 1>>, QuotTimes(args.pct_adv_per_day, adv(args.df, args.adv_window))))
    /\ QuotSame(ret[1].max_dollar, QuotTimes(ret[1].max_shares, <<LatestClose, 1>>))
    /\ ret[1].latest_close = LatestClose
    /\ ret[1].days_to_exit_at_max = args.max_days_to_exit
    /\ args.pct_adv_per_day[1] > 0 =>
         QuotEq(days_to_liquidate(ret[1].max_shares, QuotTimes(args.pct_adv_per_day, adv(args.df, args.adv_window))), args.max_days_to_exit)

AllNull ==
    /\ ret[1].max_shares = NoQuot /\ ret[1].max_dollar = NoQuot /\ ret[1].adv = NoQuot
    /\ ret[1].days_to_exit_at_max = None /\ ret[1].latest_close = None

\* The ADV over the window is undefined exactly in the cases listed: fewer
\* bars than the window, no Volume column, an empty series, no positive
\* volume in the window.
AdvUndefinedCases ==
    \/ Len(args.df.rows) < args.adv_window
    \/ "Volume" \notin args.df.columns
    \/ Len(args.df.rows) = 0
    \/ \A k \in (Len(args.df.rows) - args.adv_window + 1)..Len(args.df.rows) : args.df.rows[k].Volume \in {None, 0}

\* C21 (as stated): with a defined ADV max_purchase_by_liquidity returns
\* max_shares = max_days_to_exit x pct_adv_per_day x ADV, max_dollar =
\* max_shares x latest Close and days_to_exit_at_max = max_days_to_exit, so
\* that days_to_liquidate(max_shares, pct_adv_per_day x ADV) =
\* max_days_to_exit; with an undefined ADV every field is null; and
\* days_to_liquidate returns null for a null or non-positive ADV.
C21_PurchaseAsStated ==
    /\ MaxPurchaseCalled =>
         /\ AdvDefined => /\ PurchaseLimits
                          /\ QuotEq(days_to_liquidate(ret[1].max_shares, QuotTimes(args.pct_adv_per_day, adv(args.df, args.adv_window))), args.max_days_to_exit)
         /\ ~AdvDefined => AllNull
    /\ (pc = "called" /\ args.fn = "days_to_liquidate" /\ (args.adv = NoQuot \/ args.adv[1] <= 0)) => ret[1] = NoQuot

\* C21 (amended): the limits are returned when the ADV is defined and the
\* series has a Close column, and liquidating max_shares takes
\* max_days_to_exit days when pct_adv_per_day is positive; when the ADV is
\* undefined (fewer than window bars, no Volume column, empty series, no
\* positive volume) or the Close column is missing every field is null,
\* latest_close included; days_to_liquidate returns null for a null or
\* non-positive ADV.
C21_MaxPurchase ==
    /\ MaxPurchaseCalled =>
         /\ AdvDefined <=> ~AdvUndefinedCases
         /\ (AdvDefined /\ HasClose) => PurchaseLimits
         /\ (~AdvDefined \/ ~HasClose) => AllNull
    /\ (pc = "called" /\ args.fn = "days_to_liquidate" /\ (args.adv = NoQuot \/ args.adv[1] <= 0)) => ret[1] = NoQuot

\* A call with a defined ADV, a Close column, a missing volume inside the
\* window and the default parameters.
C21_Witness ==
    /\ MaxPurchaseCalled /\ AdvDefined /\ HasClose
    /\ args.max_days_to_exit = DEFAULT_MAX_DAYS_TO_EXIT /\ args.pct_adv_per_day = DEFAULT_PCT_ADV_PER_DAY
    /\ \E k \in 1..Len(args.df.rows) : args.df.rows[k].Volume = 0
    /\ ret[1].max_shares # NoQuot

---------------------------------------------------------------------------
\* Idempotence of find_bases (specification SpecBases)

---------------------------------------------------------------------------
\* Properties of _pivot_highs_lows (specification SpecDaily)

PivotsCalled == pc = "called" /\ args.fn = "_pivot_highs_lows"
\* The bar of 0-based index i, and the 0-based window [max(0, i - 2),
\* min(n, i + 3)) of a series of n bars.
BarAt(i) == args.weekly[i + 1]
PivotWindow(i) ==
    LET n == Len(args.weekly)
    IN  {k \in 0..(n - 1) : k >= MaxOf({0, i - 2}) /\ k < MinOf({n, i + 3})}
StrictlyAscending(s) == \A k \in 1..(Len(s) - 1) : s[k] < s[k + 1]
\* 0-based indices a list of positions flags.
Flagged(s) == {s[k] - 1 : k \in 1..Len(s)}

\* C23: on a weekly series of n bars index i is flagged as a pivot high
\* iff High[i] is the maximum High over [max(0, i - 2), min(n, i + 3)), and
\* as a pivot low iff Low[i] is the minimum Low over the same window (all
\* tied extremes are flagged); both index lists are strictly ascending.
C23_PivotHighsLows ==
    PivotsCalled =>
        /\ \A i \in 0..(Len(args.weekly) - 1) :
              /\ i \in Flagged(ret[1].highs) <=> BarAt(i).High = MaxOf({BarAt(k).High : k \in PivotWindow(i)})
              /\ i \in Flagged(ret[1].lows) <=> BarAt(i).Low = MinOf({BarAt(k).Low : k \in PivotWindow(i)})
        /\ Flagged(ret[1].highs) \subseteq 0..(Len(args.weekly) - 1)
        /\ Flagged(ret[1].lows) \subseteq 0..(Len(args.weekly) - 1)
        /\ StrictlyAscending(ret[1].highs) /\ StrictlyAscending(ret[1].lows)

\* A series with two adjacent equal Highs both flagged, an interior bar that
\* is neither a pivot high nor a pivot low, and a window cut at both ends.
C23_Witness ==
    /\ PivotsCalled /\ Len(args.weekly) >= 5
    /\ \E i \in 0..(Len(args.weekly) - 2) :
          /\ {i, i + 1} \subseteq Flagged(ret[1].highs)
          /\ BarAt(i).High = BarAt(i + 1).High
    /\ \E i \in 1..(Len(args.weekly) - 2) : i \notin Flagged(ret[1].highs) /\ i \notin Flagged(ret[1].lows)
    /\ 0 \in Flagged(ret[1].lows)

---------------------------------------------------------------------------
\* The trend gate of find_bases (specification SpecBases)

\* Candidates of the call that end before the last week, fail the gate at
\* their start week, would pass it one week earlier, and are classified on
\* a daily frame in an uptrend throughout.
RejectedByGate ==
    LET pl == _pivot_highs_lows(weekly)
        cands == candidate_starts(weekly, pl.highs, pivot)
    IN  {c \in Range(cands) :
            /\ c.end_idx < Len(weekly)
            /\ c.hi_idx \notin daily.uptrend /\ c.hi_idx >= 2 /\ (c.hi_idx - 1) \in daily.uptrend
            /\ EvaluateCandidate(weekly, [daily EXCEPT !.uptrend = 1..Len(weekly)], pl.lows, c) # NoBase}

\* C24: a returned base passed uptrend_at_date at its start week, or ends
\* at the last week, starts at weekly index 1 or later and passed
\* uptrend_at_date one week before its start; a base ending before the last
\* week always passed it at its start week.
C24_TrendGate ==
    Returned => \A b \in BaseSet :
        /\ \/ HiOf(b) \in daily.uptrend
           \/ EndOf(b) = Len(weekly) /\ HiOf(b) - 1 >= 1 /\ (HiOf(b) - 1) \in daily.uptrend
        /\ EndOf(b) < Len(weekly) => HiOf(b) \in daily.uptrend

\* A call that keeps a base ending at the last week through the retry and
\* rejects a candidate that ends earlier and would pass the retry.
C24_Witness ==
    /\ pc = "found" /\ daily.len >= MIN_DAILY_BARS
    /\ \E b \in BaseSet : EndOf(b) = Len(weekly) /\ HiOf(b) \notin daily.uptrend /\ (HiOf(b) - 1) \in daily.uptrend
    /\ \E c \in RejectedByGate : \A b \in BaseSet : ~(HiOf(b) = c.hi_idx /\ EndOf(b) = c.end_idx)

---------------------------------------------------------------------------
\* has_handle of the candidates of find_bases (specification SpecBases)

\* The candidate intervals of the call, and for a candidate its pivot lows,
\* prior high, lowest Low and has_handle as lines 577-596 compute them.
Candidates == Range(candidate_starts(weekly, _pivot_highs_lows(weekly).highs, pivot))
LowsIn(c) == SelectSeq(_pivot_highs_lows(weekly).lows, LAMBDA i : c.hi_idx < i /\ i <= c.end_idx)
PriorHighOf(c) == weekly[c.hi_idx].High
BaseLowOf(c) == MinOf({weekly[k].Low : k \in c.hi_idx..c.end_idx})
HandleOf(c) == HasHandle(weekly, LowsIn(c), PriorHighOf(c), BaseLowOf(c))
FirstPivotLow(c) == weekly[LowsIn(c)[1]].Low
SecondPivotLow(c) == weekly[LowsIn(c)[2]].Low
AboveMidpoint(c) == 2 * SecondPivotLow(c) > BaseLowOf(c) + PriorHighOf(c)
Evaluated == Returned /\ Len(weekly) >= 4 /\ daily.len >= MIN_DAILY_BARS

\* What lines 590-596 compute: first_low is the lowest Low of the interval
\* (base_low), so has_handle is true exactly when the interval holds at
\* least two pivot lows and the second one is above the midpoint of
\* [base_low, prior_high]; the comparison with first_low follows from it.
HandleAboveMidpoint ==
    Evaluated => \A c \in Candidates :
        /\ HandleOf(c) <=> (Len(LowsIn(c)) >= 2 /\ AboveMidpoint(c))
        /\ HandleOf(c) => SecondPivotLow(c) > BaseLowOf(c)

\* A second pivot low above the midpoint and below the first pivot low gives
\* has_handle, and the base is returned as a cup with handle.
HandleBelowFirstPivotLow ==
    /\ Evaluated
    /\ \E c \in Candidates : Len(LowsIn(c)) >= 2 /\ HandleOf(c) /\ SecondPivotLow(c) < FirstPivotLow(c)
    /\ "Cup w/ handle" \in {b.base_type : b \in BaseSet}

\* C25: has_handle is true exactly when the interval holds at least two
\* pivot lows and the second one is above the midpoint of [base_low,
\* prior_high] and above the first pivot low of the interval.
C25_HandleAsStated ==
    Evaluated => \A c \in Candidates :
        HandleOf(c) <=> (Len(LowsIn(c)) >= 2 /\ AboveMidpoint(c) /\ SecondPivotLow(c) > FirstPivotLow(c))

---------------------------------------------------------------------------
\* vcp_like of the bases of find_bases (specification SpecBases)

WeeksOf(b) == HiOf(b)..EndOf(b)
\* (a) at least 2 pivot lows after the start week, and the pullback depths
\* (prior_high - low) / prior_high strictly decreasing over all of them.
DepthsDecreasing(b) ==
    /\ Len(LowsOf(b)) >= 2
    /\ \A k \in 1..(Len(LowsOf(b)) - 1) :
          (b.prior_high - weekly[LowsOf(b)[k + 1]].Low) * b.prior_high < (b.prior_high - weekly[LowsOf(b)[k]].Low) * b.prior_high
\* Down weeks (Close < Open) and up weeks of the interval that have a
\* volume, and the sum of the volumes of a set of weeks.
HasVolume == "Volume" \in DOMAIN weekly[1]
DownWeeks(b) == {k \in WeeksOf(b) : weekly[k].Close < weekly[k].Open /\ weekly[k].Volume # None}
UpWeeks(b) == {k \in WeeksOf(b) : ~(weekly[k].Close < weekly[k].Open) /\ weekly[k].Volume # None}
VolumeSum(S) == SumOver([k \in 1..Len(weekly) |-> weekly[k].Volume], S)
\* (b) mean volume of the down weeks strictly below that of the up weeks.
DownBelowUp(b) == VolumeSum(DownWeeks(b)) * Cardinality(UpWeeks(b)) < VolumeSum(UpWeeks(b)) * Cardinality(DownWeeks(b))
VolumeMissing(b) == ~HasVolume \/ DownWeeks(b) = {} \/ UpWeeks(b) = {}
\* (c) the daily frame has ATR values inside the interval, and the ATR at
\* its end is strictly lower than at its start.
AtrInside(b) == \E k \in WeeksOf(b) : k <= Len(daily.atr) /\ daily.atr[k] # None
AtrContracts(b) == daily.atr[EndOf(b)] < daily.atr[HiOf(b)]

---------------------------------------------------------------------------
\* tight_closes of pivot_forming (specification SpecPivot)

\* The closes of the last 3 bars of the winning window, which are the last
\* 3 bars of the series.
LastCloses == {args.rows[k].Close : k \in (Len(args.rows) - 2)..Len(args.rows)}
\* (max - min) / ((max + min) / 2) * 100 <= 3
ClosesWithin3Pct ==
    /\ MaxOf(LastCloses) + MinOf(LastCloses) > 0
    /\ 200 * (MaxOf(LastCloses) - MinOf(LastCloses)) <= 3 * (MaxOf(LastCloses) + MinOf(LastCloses))

\* C27: when pivot_forming returns forming, tight_closes is true iff the
\* last 3 closes of the winning window span at most 3 % of their midpoint
\* (bound included); tight_closes is false when forming is false.
C27_TightCloses ==
    pc = "called" =>
        /\ ret[1].forming => (ret[1].tight_closes <=> ClosesWithin3Pct)
        /\ ~ret[1].forming => ret[1].tight_closes = FALSE

\* A forming pivot whose last 3 closes span exactly 3 % of their midpoint.
C27_Witness ==
    /\ pc = "called" /\ ret[1].forming /\ ret[1].tight_closes
    /\ 200 * (MaxOf(LastCloses) - MinOf(LastCloses)) = 3 * (MaxOf(LastCloses) + MinOf(LastCloses))

---------------------------------------------------------------------------
\* Monotony of the range of the trailing windows (specification SpecPivot)

\* Highest High, lowest Low and unrounded range of the trailing L bars.
WindowHigh(L) == MaxOf({args.rows[k].High : k \in (Len(args.rows) - L + 1)..Len(args.rows)})
WindowLow(L) == MinOf({args.rows[k].Low : k \in (Len(args.rows) - L + 1)..Len(args.rows)})
\* range_pct(L) <= range_pct(M), for positive highest Highs.
RangeNotAbove(L, M) == (WindowHigh(L) - WindowLow(L)) * WindowHigh(M) <= (WindowHigh(M) - WindowLow(M)) * WindowHigh(L)
LongestTried == MinOf({10, Len(args.rows)})
PositiveHighs == \A k \in 1..Len(args.rows) : args.rows[k].High > 0 /\ args.rows[k].Low <= args.rows[k].High

---------------------------------------------------------------------------
\* The trailing-high candidate of find_bases (specification SpecBases)

TrailingCandidates == {c \in Candidates : c.source = "trailing_high"}
\* The week holding 0-based weekly index last - k, as a position.
LastMinus(k) == Len(weekly) - k

---------------------------------------------------------------------------
\* Reach of the Double bottom type (specification SpecClassify)

Classified == pc = "classified"
\* The double-bottom criteria of lines 366-370: two lows, both known, within
\* DOUBLE_BOTTOM_LOW_TOLERANCE of prior_high of each other.
DoubleBottomCriteria(a) ==
    /\ a.two_lows /\ a.low1 # None /\ a.low2 # None /\ a.prior_high > 0
    /\ 100 * Abs(a.low1 - a.low2) <= DOUBLE_BOTTOM_LOW_TOLERANCE * a.prior_high

\* C30: "Double bottom" is returned only for a duration of 53 to 65 weeks
\* without a handle; with a duration of 7 to 52 weeks a candidate meeting
\* the double-bottom criteria is typed Cup completion cheat, Low cheat or
\* Cup w/ handle; every duration of 7 to 65 weeks gets some type.
C30_DoubleBottomReach ==
    Classified =>
        /\ ret[1] = "Double bottom" =>
              InWeeks(args.duration_weeks, 53, 65) /\ ~args.has_handle /\ DoubleBottomCriteria(args)
        /\ InWeeks(args.duration_weeks, 7, 52) /\ DoubleBottomCriteria(args) =>
              ret[1] \in {"Cup completion cheat", "Low cheat", "Cup w/ handle"}
        /\ InWeeks(args.duration_weeks, 7, 65) => ret[1] # NoType

\* A 52-week candidate with two lows within tolerance and no handle that
\* is typed as a cup cheat.
C30_Witness ==
    /\ Classified
    /\ args.duration_weeks = 52 /\ DoubleBottomCriteria(args) /\ ~args.has_handle
    /\ ret[1] \in {"Cup completion cheat", "Low cheat"}
====
